---- MODULE Spec2Model ----
(***************************************************************************)
(* A model of the ODE data engine: the profile engine (eda.ts), the type   *)
(* inference helpers (typeInference.ts), the KPI selector (kpis.ts), the   *)
(* chart generator and its diversity selector (charts.ts), the insight     *)
(* generator (insights.ts) and the question engine (ask.ts).               *)
(*                                                                         *)
(* Conventions.                                                            *)
(*  - A cell of a row is null, a JavaScript number or a string:            *)
(*    [t |-> "null"], [t |-> "num", n |-> 5], [t |-> "str", s |-> "US"].   *)
(*    The numbers carried by datasets are integers.                       *)
(*  - A nullable number (number | null) is [ok |-> BOOLEAN, n |-> Int].    *)
(*  - Quotients the code computes in floating point (mean, ratios,         *)
(*    percentages) are kept as exact fractions and compared by            *)
(*    cross-multiplication; quartiles are kept in quarters.  Scores that   *)
(*    go through Math.log10 or Math.sqrt are kept in thousandths, rounded  *)
(*    down.                                                                *)
(*  - A Date is [ok, t]: t is the number of its calendar day (UTC).       *)
(*    Date.parse is fixed by the language only for the ISO                 *)
(*    forms; what it does with any other text is left to the engine, and   *)
(*    the variable engine records which of the two behaviours in use the   *)
(*    run has.                                                             *)
(***************************************************************************)
EXTENDS Integers, Sequences, FiniteSets, TLC

VARIABLES
    engine,     \* "iso" | "legacy": what Date.parse does outside the ISO forms
    data,       \* the row set handed to the engine
    eda,        \* the profile (EDAResult), or NoEDA
    kpis,       \* KPI[]
    pool,       \* the candidates generateCharts hands to pickDiverse
    charts,     \* ChartSpec[]
    insights,   \* Insight[]
    pc,         \* the stages that have run / the position of the function under study
    boxIn,      \* computeBox: the value list
    boxOut,     \* computeBox: the result
    question,   \* answerQuestion: q
    answer,     \* answerQuestion: the returned sentence
    passed,     \* answerQuestion: the arguments the caller passes
    context,    \* the dataset context: data, meta, eda, kpis, charts
    calls,      \* the calls made on the dataset context, in order
    chosenCharts, \* the dashboard: the charts it shows
    numText,    \* the numeric parsers: the string read
    numRead     \* the numeric parsers: what they make of it

vars == <<engine, data, eda, kpis, pool, charts, insights, pc, boxIn, boxOut,
          question, answer, passed, context, calls, chosenCharts, numText, numRead>>

(***************************************************************************)
(* Generic helpers                                                         *)
(***************************************************************************)
Range(f) == {f[i] : i \in DOMAIN f}

SetMin(S) == CHOOSE x \in S : \A y \in S : x <= y
SetMax(S) == CHOOSE x \in S : \A y \in S : x >= y

Abs(x) == IF x < 0 THEN -x ELSE x

MinOf(a, b) == IF a <= b THEN a ELSE b
MaxOf(a, b) == IF a >= b THEN a ELSE b

RECURSIVE SumSeq(_)
SumSeq(s) ==
    IF Len(s) = 0 THEN 0
    ELSE IF Len(s) = 1 THEN s[1]
    ELSE SumSeq(SubSeq(s, 1, Len(s) \div 2)) + SumSeq(SubSeq(s, Len(s) \div 2 + 1, Len(s)))

\* Array.prototype.slice(0, k)
Take(s, k) == SubSeq(s, 1, MinOf(k, Len(s)))

\* Array.prototype.sort is a stable sort.  SortAscending(s, key) is s sorted by
\* the comparator (a, b) => key(a) - key(b), where key[i] is the key of s[i];
\* SortDescending is the comparator (a, b) => key(b) - key(a).
SortAscending(s, key) ==
    LET n == Len(s)
        rk == [i \in 1..n |->
                 Cardinality({j \in 1..n : key[j] < key[i] \/ (key[j] = key[i] /\ j < i)}) + 1]
        at == [r \in 1..n |-> CHOOSE i \in 1..n : rk[i] = r]
    IN [r \in 1..n |-> s[at[r]]]

SortDescending(s, key) == SortAscending(s, [i \in 1..Len(s) |-> -key[i]])

\* values.sort((a, b) => a - b)
SortNumbers(s) == SortAscending(s, s)

\* The first index of s whose element satisfies T, or 0.
FirstIndex(s, T(_)) ==
    LET I == {i \in 1..Len(s) : T(s[i])} IN IF I = {} THEN 0 ELSE SetMin(I)

(***************************************************************************)
(* Strings (String.prototype methods and the regular expressions used)     *)
(***************************************************************************)
Char(s, i) == SubSeq(s, i, i)

IsSpace(c) == c \in {" ", "\t"}
IsDigit(c) == c \in {"0", "1", "2", "3", "4", "5", "6", "7", "8", "9"}
IsUpper(c) == c \in {"A", "B", "C", "D", "E", "F", "G", "H", "I", "J", "K", "L", "M",
                     "N", "O", "P", "Q", "R", "S", "T", "U", "V", "W", "X", "Y", "Z"}

LowerLetters == <<"a", "b", "c", "d", "e", "f", "g", "h", "i", "j", "k", "l", "m",
                  "n", "o", "p", "q", "r", "s", "t", "u", "v", "w", "x", "y", "z">>

RECURSIVE toLowerCase(_)
toLowerCase(s) ==
    LET
        UpperLetters == <<"A", "B", "C", "D", "E", "F", "G", "H", "I", "J", "K", "L", "M",
                          "N", "O", "P", "Q", "R", "S", "T", "U", "V", "W", "X", "Y", "Z">>
        LowerChar(c) ==
            IF IsUpper(c) THEN LowerLetters[CHOOSE i \in 1..26 : UpperLetters[i] = c] ELSE c
    IN
    IF Len(s) = 0 THEN "" ELSE LowerChar(Char(s, 1)) \o toLowerCase(SubSeq(s, 2, Len(s)))

\* s.replace(/[C]/g, ""): s without the characters of the set C
RECURSIVE RemoveChars(_, _)
RemoveChars(s, C) ==
    IF Len(s) = 0 THEN ""
    ELSE (IF Char(s, 1) \in C THEN "" ELSE Char(s, 1)) \o RemoveChars(SubSeq(s, 2, Len(s)), C)

\* String.prototype.trim
trim(text) ==
    LET
        TrimTo(s, I) == IF I = {} THEN "" ELSE SubSeq(s, SetMin(I), SetMax(I))
    IN
    TrimTo(text, {i \in 1..Len(text) : ~IsSpace(Char(text, i))})

includes(s, p) ==
    \E i \in 1..(Len(s) - Len(p) + 1) : SubSeq(s, i, i + Len(p) - 1) = p

startsWith(s, p) == Len(s) >= Len(p) /\ SubSeq(s, 1, Len(p)) = p
endsWith(s, p) == Len(s) >= Len(p) /\ SubSeq(s, Len(s) - Len(p) + 1, Len(s)) = p

AllDigits(s) == \A i \in 1..Len(s) : IsDigit(Char(s, i))

RECURSIVE DigitsToInt(_)
DigitsToInt(s) ==
    LET
        DigitVal(c) == CHOOSE k \in 0..9 : ToString(k) = c
    IN
    IF Len(s) = 0 THEN 0
    ELSE DigitsToInt(SubSeq(s, 1, Len(s) - 1)) * 10 + DigitVal(Char(s, Len(s)))

(***************************************************************************)
(* Cells                                                                   *)
(***************************************************************************)
Null == [t |-> "null"]
Num(n) == [t |-> "num", n |-> n]
Str(s) == [t |-> "str", s |-> s]

NoNumber == [ok |-> FALSE, n |-> 0]
SomeNumber(n) == [ok |-> TRUE, n |-> n]

\* String(v) for a non-null cell
StringOf(v) == IF v.t = "num" THEN ToString(v.n) ELSE v.s

\* isMissing (eda.ts, charts.ts, kpis.ts, typeInference.ts: the same text)
isMissing(v) == v.t = "null" \/ (v.t = "str" /\ trim(v.s) = "")

(***************************************************************************)
(* Numbers in text                                                         *)
(***************************************************************************)

NoLiteral == [ok |-> FALSE, neg |-> FALSE, ip |-> "", fp |-> "", ex |-> ""]

\* s matched against /^[-+]?\d+(\.\d+)?(?:e[-+]?\d+)?$/i (strict = TRUE), or
\* against /^[-+]?(?:\d+\.?\d*|\d*\.?\d+)(?:e[-+]?\d+)?$/i (strict = FALSE):
\* the sign, the integer digits, the fraction digits and the exponent.
MatchNumber(numeral, isStrict) ==
    LET
        IndexOfAny(s, C) ==
            LET I == {i \in 1..Len(s) : Char(s, i) \in C} IN IF I = {} THEN 0 ELSE SetMin(I)
        \* s without a leading sign
        Unsigned(s) == IF Len(s) > 0 /\ Char(s, 1) \in {"-", "+"} THEN SubSeq(s, 2, Len(s)) ELSE s
        \* the text before and after position i of s (all of s and nothing when i = 0)
        TextBefore(s, i) == IF i = 0 THEN s ELSE SubSeq(s, 1, i - 1)
        TextAfter(s, i) == IF i = 0 THEN "" ELSE SubSeq(s, i + 1, Len(s))
        \* /^[-+]?\d+$/
        IsSignedDigits(s) == Len(Unsigned(s)) > 0 /\ AllDigits(Unsigned(s))
        \* the groups of the number patterns: integer digits ip, fraction digits fp
        \* (dotted: a point was written), exponent ex (expo: an e was written)
        MatchGroups(neg, ip, fp, dotted, ex, expo, strict) ==
            IF /\ AllDigits(ip) /\ AllDigits(fp)
               /\ IF strict THEN Len(ip) > 0 /\ (~dotted \/ Len(fp) > 0) ELSE Len(ip) + Len(fp) > 0
               /\ (~expo \/ IsSignedDigits(ex))
              THEN [ok |-> TRUE, neg |-> neg, ip |-> ip, fp |-> fp, ex |-> ex]
              ELSE NoLiteral
        MatchMantissa(neg, mant, dot, ex, expo, strict) ==
            MatchGroups(neg, TextBefore(mant, dot), TextAfter(mant, dot), dot /= 0, ex, expo, strict)
        MatchUnsigned(neg, body, e, strict) ==
            MatchMantissa(neg, TextBefore(body, e), IndexOfAny(TextBefore(body, e), {"."}), TextAfter(body, e),
                          e /= 0, strict)
    IN
    MatchUnsigned(Len(numeral) > 0 /\ Char(numeral, 1) = "-", Unsigned(numeral),
                  IndexOfAny(Unsigned(numeral), {"e", "E"}), isStrict)

\* the comma rule shared by safeToNumberLoose and looksNumeric
NormalizeCommas(str) ==
    LET
        \* s.replace(/,/g, "."): every character a of s replaced by b
        RECURSIVE ReplaceChar(_, _, _)
        ReplaceChar(s, a, b) ==
            IF Len(s) = 0 THEN ""
            ELSE (IF Char(s, 1) = a THEN b ELSE Char(s, 1)) \o ReplaceChar(SubSeq(s, 2, Len(s)), a, b)
        \* /,(\d{1,3})$/: the text ends in a comma and one to three digits
        EndsInCommaGroup(s) ==
            \E k \in 1..3 : /\ Len(s) >= k + 1
                            /\ Char(s, Len(s) - k) = ","
                            /\ AllDigits(SubSeq(s, Len(s) - k + 1, Len(s)))
    IN
    IF ~includes(str, ",") THEN str
    ELSE IF includes(str, ".") THEN RemoveChars(str, {","})
    ELSE IF EndsInCommaGroup(str) THEN ReplaceChar(str, ",", ".")
    ELSE RemoveChars(str, {","})

\* the currency signs, the spaces and a trailing % removed
Undecorated(text) ==
    LET
        \* the currency class [£€$...] of the three numeric parsers, within the
        \* model's alphabet
        CurrencySymbols == {"$"}
        \* s.replace(/%$/, "")
        DropPercent(s) == IF endsWith(s, "%") THEN SubSeq(s, 1, Len(s) - 1) ELSE s
    IN
    DropPercent(RemoveChars(text, CurrencySymbols \cup {" ", "\t"}))

\* s.startsWith("(") && s.endsWith(")")
InParens(s) == startsWith(s, "(") /\ endsWith(s, ")")

\* safeToNumberLoose on a string, up to the test of the number pattern: the
\* literal handed to Number(s) with the sign the parentheses give it, or
\* NoLiteral (eda.ts 17-44)
NumberLiteral(raw) ==
    LET
        \* negative ? -n : n, on the literal
        Negated(paren, m) == IF m.ok THEN [m EXCEPT !.neg = (paren /= m.neg)] ELSE NoLiteral
        UndecoratedLiteral(paren, s) ==
            IF s = "" THEN NoLiteral ELSE Negated(paren, MatchNumber(NormalizeCommas(s), TRUE))
        TrimmedLiteral(s) ==
            IF s = "" THEN NoLiteral
            ELSE UndecoratedLiteral(InParens(s),
                     Undecorated(IF InParens(s) THEN trim(SubSeq(s, 2, Len(s) - 1)) ELSE s))
    IN
    TrimmedLiteral(trim(raw))

\* safeToNumberLoose (eda.ts 13-48, charts.ts 96-131, kpis.ts 19-54: one text)
safeToNumberLoose(v) ==
    LET
        \* Number(s) of a literal without fraction and exponent (the only literals the
        \* row sets of this model carry); negative ? -n : n
        LiteralValue(m) == IF m.neg THEN -DigitsToInt(m.ip) ELSE DigitsToInt(m.ip)
        NumberOfLiteral(m) == IF m.ok THEN SomeNumber(LiteralValue(m)) ELSE NoNumber
    IN
    IF isMissing(v) THEN NoNumber
    ELSE IF v.t = "num" THEN SomeNumber(v.n)
    ELSE NumberOfLiteral(NumberLiteral(v.s))

\* looksNumeric (typeInference.ts)
looksNumeric(raw) ==
    LET
        TrimmedLooksNumeric(s) ==
            /\ s /= ""
            /\ Undecorated(IF Len(s) >= 2 /\ InParens(s)
                             THEN "-" \o SubSeq(s, 2, Len(s) - 1) ELSE s) /= ""
            /\ MatchNumber(NormalizeCommas(
                   Undecorated(IF Len(s) >= 2 /\ InParens(s)
                                 THEN "-" \o SubSeq(s, 2, Len(s) - 1) ELSE s)), FALSE).ok
    IN
    TrimmedLooksNumeric(trim(raw))

\* what the two numeric parsers make of a string: the literal safeToNumberLoose
\* reads and the verdict of looksNumeric
NoParse == [literal |-> NoLiteral, looks |-> FALSE]

(***************************************************************************)
(* Dates                                                                   *)
(***************************************************************************)
NoDate == [ok |-> FALSE, t |-> 0]
SomeDate(t) == [ok |-> TRUE, t |-> t]

DayNumber(y, m, dayOfMonth) ==
    LET
        \* the day number (days since 1970-01-01) of a calendar day, and back
        DaysFromEra(era, yoe, doy) ==
            era * 146097 + yoe * 365 + yoe \div 4 - yoe \div 100 + doy - 719468
        DaysFromShifted(yy, mp, d) ==
            DaysFromEra(yy \div 400, yy - (yy \div 400) * 400, (153 * mp + 2) \div 5 + d - 1)
    IN
    DaysFromShifted(IF m <= 2 THEN y - 1 ELSE y, IF m > 2 THEN m - 3 ELSE m + 9, dayOfMonth)

CivilOf(t) ==
    LET
        \* civil_from_days, in the steps of the algorithm: era, day of era, year of
        \* era, day of year, shifted month
        CivilFromMonth(era, yoe, doy, mp) ==
            [y |-> yoe + era * 400 + (IF mp >= 10 THEN 1 ELSE 0),
             m |-> IF mp < 10 THEN mp + 3 ELSE mp - 9,
             d |-> doy - (153 * mp + 2) \div 5 + 1]
        CivilFromDayOfYear(era, yoe, doy) == CivilFromMonth(era, yoe, doy, (5 * doy + 2) \div 153)
        CivilFromYearOfEra(era, doe, yoe) ==
            CivilFromDayOfYear(era, yoe, doe - (365 * yoe + yoe \div 4 - yoe \div 100))
        CivilFromDayOfEra(era, doe) ==
            CivilFromYearOfEra(era, doe,
                (doe - doe \div 1460 + doe \div 36524 - doe \div 146096) \div 365)
        CivilFromEra(z, era) == CivilFromDayOfEra(era, z - era * 146097)
    IN
    CivilFromEra(t + 719468, (t + 719468) \div 146097)

SplitAt(str, Separators) ==
    LET
        \* the fields of a text split at the separators of the set C (at most three)
        SplitAtPositions(s, I) ==
            IF Cardinality(I) = 0 THEN <<s>>
            ELSE IF Cardinality(I) = 1
              THEN <<SubSeq(s, 1, SetMin(I) - 1), SubSeq(s, SetMin(I) + 1, Len(s))>>
            ELSE IF Cardinality(I) = 2
              THEN <<SubSeq(s, 1, SetMin(I) - 1), SubSeq(s, SetMin(I) + 1, SetMax(I) - 1),
                     SubSeq(s, SetMax(I) + 1, Len(s))>>
            ELSE <<>>
    IN
    SplitAtPositions(str, {i \in 1..Len(str) : Char(str, i) \in Separators})

\* Date.parse(s), finite or NaN
DateParse(text, dateEngine) ==
    LET
        \* the day y-m-d when the calendar has it
        ValidDate(year, month, d) ==
            LET
                DaysInMonth(y, m) ==
                    IF m = 2 THEN (IF (y % 4 = 0 /\ y % 100 /= 0) \/ y % 400 = 0 THEN 29 ELSE 28)
                    ELSE IF m \in {4, 6, 9, 11} THEN 30 ELSE 31
            IN
            IF month \in 1..12 /\ d \in 1..DaysInMonth(year, month) THEN SomeDate(DayNumber(year, month, d)) ELSE NoDate
        IsoFields(f) ==
            IF /\ Len(f) >= 1
               /\ Len(f[1]) = 4 /\ AllDigits(f[1])
               /\ \A i \in 2..Len(f) : Len(f[i]) = 2 /\ AllDigits(f[i])
              THEN ValidDate(DigitsToInt(f[1]),
                             IF Len(f) >= 2 THEN DigitsToInt(f[2]) ELSE 1,
                             IF Len(f) >= 3 THEN DigitsToInt(f[3]) ELSE 1)
              ELSE NoDate
        \* Date.parse on the ISO date forms YYYY, YYYY-MM, YYYY-MM-DD
        IsoDate(s) == IsoFields(SplitAt(s, {"-"}))
        \* a bare number of one or two digits
        LegacyShortNumber(n) ==
            IF n \in 13..31 THEN NoDate
            ELSE SomeDate(DayNumber(IF n = 0 THEN 2000 ELSE IF n <= 12 THEN 2001
                                      ELSE IF n <= 49 THEN 2000 + n ELSE 1900 + n,
                                    IF n \in 1..12 THEN n ELSE 1, 1))
        LegacyNumber(s) ==
            IF Len(s) <= 2 THEN LegacyShortNumber(DigitsToInt(s))
            ELSE IF Len(s) <= 6 THEN SomeDate(DayNumber(DigitsToInt(s), 1, 1))
            ELSE NoDate
        LegacyFields(f) ==
            IF /\ Len(f) = 3
               /\ \A i \in 1..3 : Len(f[i]) > 0 /\ AllDigits(f[i])
               /\ Len(f[1]) <= 2 /\ Len(f[2]) <= 2 /\ Len(f[3]) = 4
              THEN ValidDate(DigitsToInt(f[3]), DigitsToInt(f[1]), DigitsToInt(f[2]))
              ELSE NoDate
        \* Date.parse outside the ISO forms, as the legacy parser of the engine reads
        \* it: a bare number is a month of 2001 (1-12), a two-digit year (0, 32-99) or a
        \* year (three digits and more); M/D/Y and M-D-Y are read month first.
        LegacyDate(s) ==
            IF Len(s) > 0 /\ AllDigits(s) THEN LegacyNumber(s)
            ELSE LegacyFields(SplitAt(s, {"/", "-"}))
        IsoOrLegacy(iso, s, eng) ==
            IF iso.ok THEN iso
            ELSE IF eng = "legacy" THEN LegacyDate(s)
            ELSE NoDate
    IN
    IsoOrLegacy(IsoDate(text), text, dateEngine)

\* safeToDateLoose (eda.ts 50-72, charts.ts 133-156)
safeToDateLoose(v, dateEngine) ==
    LET
        \* new Date(yy, mm, dd): months and days out of range roll over
        RolledDate(dd, mm, y0) ==
            SomeDate(DayNumber((IF y0 < 100 THEN y0 + 2000 ELSE y0) + mm \div 12, (mm % 12) + 1, 1)
                     + dd - 1)
        DayMonthYearFields(f) ==
            IF /\ Len(f) = 3
               /\ \A i \in 1..3 : Len(f[i]) > 0 /\ AllDigits(f[i])
               /\ Len(f[1]) <= 2 /\ Len(f[2]) <= 2 /\ Len(f[3]) \in 2..4
              THEN RolledDate(DigitsToInt(f[1]), DigitsToInt(f[2]) - 1, DigitsToInt(f[3]))
              ELSE NoDate
        \* /^(\d{1,2})[\/\-](\d{1,2})[\/\-](\d{2,4})$/ and new Date(yy, mm, dd)
        DayMonthYear(s) == DayMonthYearFields(SplitAt(s, {"/", "-"}))
        ParsedOrDayMonthYear(d, s) == IF d.ok THEN d ELSE DayMonthYear(s)
        TrimmedDate(s, eng) == ParsedOrDayMonthYear(DateParse(s, eng), s)
    IN
    IF isMissing(v) THEN NoDate ELSE TrimmedDate(trim(StringOf(v)), dateEngine)

\* looksDate (typeInference.ts)
looksDate(raw, dateEngine) ==
    LET
        TrimmedLooksDate(s, eng) == s /= "" /\ DateParse(s, eng).ok
    IN
    TrimmedLooksDate(trim(raw), dateEngine)

(***************************************************************************)
(* Type inference (typeInference.ts)                                       *)
(***************************************************************************)

\* safeString
safeString(v) == IF v.t = "null" THEN "" ELSE trim(StringOf(v))

\* values.filter((v) => !isMissing(v))
NonMissing(values) == SelectSeq(values, LAMBDA v : ~isMissing(v))

AsStrings(values) ==
    LET
        \* nonNull.map(safeString).filter(Boolean)
        StringsOf(nonNull) ==
            SelectSeq([i \in 1..Len(nonNull) |-> safeString(nonNull[i])], LAMBDA x : x /= "")
    IN
    StringsOf(NonMissing(values))

MinIdSample == 20

\* isLikelyID on the strings asStr
IsLikelyIDOfStrings(asStr, eng) ==
    LET
        IsLower(c) == c \in {"a", "b", "c", "d", "e", "f", "g", "h", "i", "j", "k", "l", "m",
                             "n", "o", "p", "q", "r", "s", "t", "u", "v", "w", "x", "y", "z"}
        \* [A-Za-z0-9\-_]
        IsTokenChar(c) == IsLower(c) \/ IsUpper(c) \/ IsDigit(c) \/ c \in {"-", "_"}
        \* /^[A-Za-z0-9\-_]+$/
        IsToken(x) == Len(x) > 0 /\ \A i \in 1..Len(x) : IsTokenChar(Char(x, i))
    IN
    IF Len(asStr) < MinIdSample THEN FALSE
    ELSE IF Cardinality({i \in 1..Len(asStr) : looksNumeric(asStr[i])}) * 100
              >= 85 * Len(asStr) THEN FALSE
    ELSE IF Cardinality({i \in 1..Len(asStr) : looksDate(asStr[i], eng)}) * 100
              >= 85 * Len(asStr) THEN FALSE
    ELSE /\ Cardinality(Range(asStr)) * 10 > 9 * Len(asStr)
         /\ Cardinality({i \in 1..Len(asStr) : IsToken(asStr[i])}) * 10 > 6 * Len(asStr)
         /\ \/ SumSeq([i \in 1..Len(asStr) |-> Len(asStr[i])]) <= 24 * Len(asStr)
            \/ Cardinality({i \in 1..Len(asStr) : IsToken(asStr[i]) /\ Len(asStr[i]) >= 6}) * 10
                 > 6 * Len(asStr)

\* isLikelyID(values)
isLikelyID(values, eng) ==
    IF Len(NonMissing(values)) < MinIdSample THEN FALSE
    ELSE IsLikelyIDOfStrings(AsStrings(values), eng)

SampleSize == 250

\* inferColumnType(values)
inferColumnType(values, dateEngine) ==
    LET
        InferFromSample(sample, eng) ==
            IF IsLikelyIDOfStrings(sample, eng) THEN "id"
            ELSE IF Cardinality({i \in 1..Len(sample) : looksNumeric(sample[i])}) * 10
                      >= 8 * Len(sample) THEN "numeric"
            ELSE IF Cardinality({i \in 1..Len(sample) : looksDate(sample[i], eng)}) * 10
                      >= 8 * Len(sample) THEN "date"
            ELSE IF SumSeq([i \in 1..Len(sample) |-> Len(sample[i])]) > 30 * Len(sample) THEN "text"
            ELSE "categorical"
    IN
    IF Len(NonMissing(values)) = 0 THEN "categorical"
    ELSE InferFromSample(Take(AsStrings(values), SampleSize), dateEngine)

(***************************************************************************)
(* Identifier detection of the profile engine (eda.ts 104-178)             *)
(***************************************************************************)

\* /(^id$|_id$| id$|uuid|guid|hash|token|key$|^key|identifier)/ on the
\* lowercased name (eda.ts 104-107, charts.ts 162-165, kpis.ts 72-73)
nameHintsId(col) ==
    LET
        LowerNameHintsId(n) ==
            \/ n = "id" \/ endsWith(n, "_id") \/ endsWith(n, " id")
            \/ includes(n, "uuid") \/ includes(n, "guid") \/ includes(n, "hash")
            \/ includes(n, "token") \/ endsWith(n, "key") \/ startsWith(n, "key")
            \/ includes(n, "identifier")
    IN
    LowerNameHintsId(toLowerCase(col))

\* isIntegerLike: the numbers of the model are integers
isIntegerLike(n) == n \in Int

\* the indices 0, stride, 2*stride, ... below limit (a for loop with i += stride)
Strided(limit, stride) == {i \in 0..(limit - 1) : i % stride = 0}

looksSequentialId(sortedNums, uniqueCount) ==
    LET
        \* the steps from numsSorted[i] to numsSorted[i + stride], i over I (0-based)
        SequentialSteps(numsSorted, I, stride) ==
            IF Cardinality(I) = 0 THEN FALSE
            ELSE /\ Cardinality({i \in I : numsSorted[i + 1 + stride] - numsSorted[i + 1] >= 0}) * 100
                      > 98 * Cardinality(I)
                 /\ Cardinality({i \in I : numsSorted[i + 1 + stride] - numsSorted[i + 1] = stride}) * 100
                      > 85 * Cardinality(I)
        SequentialStride(numsSorted, stride) ==
            SequentialSteps(numsSorted, Strided(Len(numsSorted) - stride, stride), stride)
    IN
    IF uniqueCount < 30 THEN FALSE
    ELSE IF Len(sortedNums) /= uniqueCount THEN FALSE
    ELSE SequentialStride(sortedNums,
             MaxOf(1, (Len(sortedNums) - 1) \div MinOf(400, Len(sortedNums) - 1)))

\* a finite set of numbers as the ascending sequence of its elements
IndexSeq(I) == [r \in 1..Cardinality(I) |-> CHOOSE i \in I : Cardinality({z \in I : z < i}) = r - 1]

isIdLikeNumericColumn(col, numbers, uniqueCount) ==
    LET
        \* Array.from(new Set(nums)).sort((a, b) => a - b)
        SortedUnique(nums) == IndexSeq(Range(nums))
        \* the sampled values are integers (a for loop with i += stride)
        SampledIntegers(nums, I) ==
            Cardinality({i \in I : isIntegerLike(nums[i + 1])}) * 100 >= 98 * MaxOf(1, Cardinality(I))
        IdLikeSpread(sortedUnique, range) ==
            IF looksSequentialId(sortedUnique, Len(sortedUnique)) THEN TRUE
            ELSE range > 0 /\ range * 10 <= Len(sortedUnique) * 12
        IdLikeSortedUnique(sortedUnique) ==
            IdLikeSpread(sortedUnique, Abs(sortedUnique[Len(sortedUnique)] - sortedUnique[1]))
    IN
    IF nameHintsId(col) THEN TRUE
    ELSE IF Len(numbers) < 30 THEN FALSE
    ELSE IF uniqueCount * 100 < 98 * MaxOf(1, Len(numbers)) THEN FALSE
    ELSE IF ~SampledIntegers(numbers,
                 Strided(Len(numbers), MaxOf(1, Len(numbers) \div MinOf(500, Len(numbers))))) THEN FALSE
    ELSE IdLikeSortedUnique(SortedUnique(numbers))

OkOnly(parsed) == SelectSeq(parsed, LAMBDA q : q.ok)

\* the numbers safeToNumberLoose reads in a list of cells, in order
NumbersIn(cells) ==
    LET
        \* the values of a list of numbers read: xs.filter(ok).map(n)
        ValuesOf(parsed) == [i \in 1..Len(parsed) |-> parsed[i].n]
    IN
    ValuesOf(OkOnly([i \in 1..Len(cells) |-> safeToNumberLoose(cells[i])]))

DatesIn(columnCells, eng) ==
    LET
        \* the dates safeToDateLoose reads in a list of cells, in order
        DaysOf(parsed) == [i \in 1..Len(parsed) |-> parsed[i].t]
    IN
    DaysOf(OkOnly([i \in 1..Len(columnCells) |-> safeToDateLoose(columnCells[i], eng)]))

\* decideType(col, values).type
decideType(column, vals, dateEngine) ==
    LET
        \* the tail of decideType: the ratios numericOk / N and dateOk / N against the
        \* thresholds, hinted being inferColumnType(values)
        DecideByRatios(col, N, nums, dateOk, hinted) ==
            IF Len(nums) * 10 >= 7 * N /\ isIdLikeNumericColumn(col, nums, Cardinality(Range(nums)))
              THEN "id"
            \* DATE_THRESHOLD = 0.85, and dateRatio >= numericRatio
            ELSE IF dateOk * 100 >= 85 * N /\ dateOk >= Len(nums) THEN "date"
            \* NUMERIC_THRESHOLD = 0.85
            ELSE IF Len(nums) * 100 >= 85 * N THEN "numeric"
            ELSE IF hinted = "date" /\ dateOk * 10 >= 7 * N THEN "date"
            ELSE IF hinted = "numeric" /\ Len(nums) * 10 >= 7 * N THEN "numeric"
            ELSE "categorical"
        DecideNonMissing(col, values, nonMissing, eng) ==
            IF Len(nonMissing) = 0 THEN "categorical"
            ELSE IF nameHintsId(col) THEN "id"
            ELSE IF isLikelyID(nonMissing, eng) THEN "id"
            ELSE DecideByRatios(col, Len(nonMissing), NumbersIn(nonMissing),
                                Len(DatesIn(nonMissing, eng)), inferColumnType(values, eng))
    IN
    DecideNonMissing(column, vals, NonMissing(vals), dateEngine)

(***************************************************************************)
(* The profile engine (eda.ts)                                             *)
(***************************************************************************)

\* row?.[col]
Cell(row, col) == IF col \in DOMAIN row THEN row[col] ELSE Null

ColumnValues(d, col) == [i \in 1..Len(d.rows) |-> Cell(d.rows[i], col)]

fingerprintRow(row, cols) ==
    LET
        \* String(v ?? "") of fingerprintRow
        FingerprintPart(v) == IF v.t = "null" THEN "" ELSE StringOf(v)
        \* parts.join("||")
        RECURSIVE JoinParts(_, _)
        JoinParts(parts, sep) ==
            IF Len(parts) = 0 THEN ""
            ELSE IF Len(parts) = 1 THEN parts[1]
            ELSE parts[1] \o sep \o JoinParts(Tail(parts), sep)
    IN
    JoinParts([i \in 1..Len(cols) |-> FingerprintPart(Cell(row, cols[i]))], "||")

\* median(sorted), doubled (an even count averages the two middle elements)
median2(sorted) ==
    LET n == Len(sorted)
        mid == n \div 2
    IN IF n % 2 = 0 THEN sorted[mid] + sorted[mid + 1] ELSE 2 * sorted[mid + 1]

\* stdev(vals, mean) squared, as a fraction: sum((v - mean)^2) / (n - 1)
\*   = (n * sum(v^2) - sum(v)^2) / (n * (n - 1))
variance(vals) ==
    LET n == Len(vals)
        s == SumSeq(vals)
        s2 == SumSeq([i \in 1..n |-> vals[i] * vals[i]])
    IN [ok |-> n >= 2, num |-> n * s2 - s * s, den |-> n * (n - 1)]

\* the unique-value map of a column: its keys in insertion order, with counts
Uniques(values) ==
    LET
        \* the indices at which a key occurs for the first time
        FirstOccurrences(keys) ==
            SelectSeq([i \in 1..Len(keys) |-> i], LAMBDA i : \A j \in 1..(i - 1) : keys[j] /= keys[i])
        CountedKeys(keys, first) ==
            [k \in 1..Len(first) |->
               [value |-> keys[first[k]],
                count |-> Cardinality({j \in 1..Len(keys) : keys[j] = keys[first[k]]})]]
        UniquesOfKeys(keys) == CountedKeys(keys, FirstOccurrences(keys))
        KeysOf(nonMissing) == [i \in 1..Len(nonMissing) |-> StringOf(nonMissing[i])]
    IN
    UniquesOfKeys(KeysOf(NonMissing(values)))

TopValuesKept == 8

\* entries sorted by count (descending), the first 8, with their percentage
TopValues(uniques, nonMissing) ==
    LET
        \* the percentage (count / Math.max(1, nonMissingCount)) * 100 as the fraction
        \* pctNum / pctDen
        WithPct(top, nonMissingCount) ==
            [i \in 1..Len(top) |->
               [value |-> top[i].value, count |-> top[i].count,
                pctNum |-> 100 * top[i].count, pctDen |-> MaxOf(1, nonMissingCount)]]
    IN
    WithPct(Take(SortDescending(uniques, [i \in 1..Len(uniques) |-> uniques[i].count]),
                 TopValuesKept),
            nonMissing)

NoFraction == [ok |-> FALSE, num |-> 0, den |-> 1]

\* a column profile (ColumnEDA): the fields a type does not have keep the
\* values below
BaseColumn ==
    [type |-> "categorical", missing |-> 0, uniqueCount |-> 0, nonMissingCount |-> 0,
     inferredAs |-> "", topValues |-> <<>>,
     min |-> NoNumber, max |-> NoNumber, mean |-> NoFraction, median2 |-> NoNumber,
     stdev2 |-> NoFraction, zeros |-> 0, negatives |-> 0,
     dmin |-> NoDate, dmax |-> NoDate]

\* what runEDA returns for an empty row set
EmptyEDA ==
    LET
        NoColumns == [c \in {} |-> BaseColumn]
    IN
            [duplicates |-> 0, emptyColumns |-> <<>>, constantColumns |-> <<>>,
             order |-> <<>>, columns |-> NoColumns]

\* runEDA(data); order is the key order of columns (Object.entries)
runEDA(dataset, dateEngine) ==
    LET
        \* the union of the keys, in first-seen order (eda.ts 249-251)
        ColumnsOf(d) == SelectSeq(d.cols, LAMBDA c : \E i \in 1..Len(d.rows) : c \in DOMAIN d.rows[i])
        \* the profile of an identifier column (eda.ts: type categorical, inferredAs id)
        IdProfile(missing, uniques, nonMissingCount) ==
            [BaseColumn EXCEPT !.missing = missing, !.uniqueCount = Len(uniques),
                               !.topValues = TopValues(uniques, nonMissingCount),
                               !.inferredAs = "id", !.nonMissingCount = nonMissingCount]
        \* the profile of a numeric column; nums are the parsed values, sorted
        NumericProfile(missing, uniqueCount, nums) ==
            [BaseColumn EXCEPT
               !.type = "numeric", !.missing = missing, !.uniqueCount = uniqueCount,
               !.min = IF Len(nums) > 0 THEN SomeNumber(nums[1]) ELSE NoNumber,
               !.max = IF Len(nums) > 0 THEN SomeNumber(nums[Len(nums)]) ELSE NoNumber,
               !.mean = IF Len(nums) > 0
                          THEN [ok |-> TRUE, num |-> SumSeq(nums), den |-> Len(nums)]
                          ELSE NoFraction,
               !.median2 = IF Len(nums) > 0 THEN SomeNumber(median2(nums)) ELSE NoNumber,
               !.stdev2 = IF Len(nums) > 0 THEN variance(nums) ELSE NoFraction,
               !.zeros = Cardinality({i \in 1..Len(nums) : nums[i] = 0}),
               !.negatives = Cardinality({i \in 1..Len(nums) : nums[i] < 0}),
               !.nonMissingCount = Len(nums)]
        \* the profile of a date column; days are the parsed dates
        DateProfile(missing, days) ==
            [BaseColumn EXCEPT
               !.type = "date", !.missing = missing,
               !.uniqueCount = Cardinality(Range(days)),
               !.dmin = IF Len(days) > 0 THEN SomeDate(SetMin(Range(days))) ELSE NoDate,
               !.dmax = IF Len(days) > 0 THEN SomeDate(SetMax(Range(days))) ELSE NoDate,
               !.nonMissingCount = Len(days)]
        CategoricalProfile(missing, uniques, nonMissingCount) ==
            [BaseColumn EXCEPT !.missing = missing, !.uniqueCount = Len(uniques),
                               !.topValues = TopValues(uniques, nonMissingCount),
                               !.nonMissingCount = nonMissingCount]
        ProfileDecided(decided, values, missing, rowCount, isEmpty, eng) ==
            IF decided = "id"
              THEN IdProfile(missing, Uniques(values), MaxOf(0, rowCount - missing))
            ELSE IF decided = "numeric" /\ ~isEmpty
              THEN NumericProfile(missing, Len(Uniques(values)), SortNumbers(NumbersIn(values)))
            ELSE IF decided = "date" /\ ~isEmpty
              THEN DateProfile(missing, DatesIn(values, eng))
            ELSE CategoricalProfile(missing, Uniques(values), MaxOf(0, rowCount - missing))
        \* the rows whose fingerprint an earlier row has
        Duplicates(fps) == Cardinality({i \in 1..Len(fps) : \E j \in 1..(i - 1) : fps[j] = fps[i]})
        \* the column loop of runEDA: each column is profiled from its values
        ProfileWithEmpty(d, columns, emptyColumns, eng) ==
            [duplicates |-> Duplicates([i \in 1..Len(d.rows) |-> fingerprintRow(d.rows[i], columns)]),
             emptyColumns |-> emptyColumns,
             constantColumns |-> SelectSeq(columns, LAMBDA c : Len(Uniques(ColumnValues(d, c))) = 1),
             order |-> columns,
             columns |-> [c \in Range(columns) |->
                            ProfileDecided(decideType(c, ColumnValues(d, c), eng),
                                           ColumnValues(d, c),
                                           Cardinality({i \in 1..Len(d.rows) :
                                                          isMissing(Cell(d.rows[i], c))}),
                                           Len(d.rows), c \in Range(emptyColumns), eng)]]
    IN
    IF Len(dataset.rows) = 0 THEN EmptyEDA
    ELSE ProfileWithEmpty(dataset, ColumnsOf(dataset),
             SelectSeq(ColumnsOf(dataset),
                       LAMBDA c : \A i \in 1..Len(dataset.rows) : isMissing(Cell(dataset.rows[i], c))),
             dateEngine)

(***************************************************************************)
(* Math.log10 and Math.sqrt in thousandths                                 *)
(***************************************************************************)

\* 1000 * log10(n) for an integer n >= 1, rounded down (to about 1/1000)
Log10Milli(count) ==
    LET
        RECURSIVE FloorLog2(_)
        FloorLog2(n) == IF n < 2 THEN 0 ELSE 1 + FloorLog2(n \div 2)
        \* k fraction bits of log2(m / 2^14), for 2^14 <= m < 2^15
        RECURSIVE Log2Bits(_, _)
        Log2Bits(m, k) ==
            IF k = 0 THEN 0
            ELSE LET sq == (m * m) \div 16384
                 IN IF sq >= 32768 THEN 2 ^ (k - 1) + Log2Bits(sq \div 2, k - 1)
                    ELSE Log2Bits(sq, k - 1)
    IN
    LET e == FloorLog2(count)
        m == IF e >= 14 THEN count \div (2 ^ (e - 14)) ELSE count * (2 ^ (14 - e))
        L == e * 1024 + Log2Bits(m, 10)
    IN (L * 30103) \div 102400

\* 1000 * log10(x + 1) for x given in thousandths
Log10Plus1Milli(xm) == Log10Milli(xm + 1000) - 3000

\* 1000 * sqrt(num / den), rounded down, for num >= 0, den > 0
SqrtMilli(num, den) ==
    LET
        \* the largest integer of 32-bit arithmetic
        MaxInt == (2 ^ 30 - 1) * 2 + 1
        RECURSIVE IsqrtIter(_, _, _)
        IsqrtIter(n, lo, hi) ==
            IF lo >= hi THEN lo
            ELSE LET mid == (lo + hi + 1) \div 2
                 IN IF mid * mid <= n THEN IsqrtIter(n, mid, hi) ELSE IsqrtIter(n, lo, mid - 1)
        Isqrt(n) == IsqrtIter(n, 0, 46340)
    IN
    LET s == IF num <= MaxInt \div 1000000 THEN 1000
             ELSE IF num <= MaxInt \div 10000 THEN 100
             ELSE IF num <= MaxInt \div 100 THEN 10 ELSE 1
    IN Isqrt((num * s * s) \div den) * (1000 \div s)

Frac(n, d) == [num |-> n, den |-> d]

(***************************************************************************)
(* The KPI selector (kpis.ts)                                              *)
(***************************************************************************)
\* a KPI; column is "" when the KPI has none, value keeps the quantity the
\* code formats into the value string
KPI(label, type, column, value) ==
    [label |-> label, type |-> type, column |-> column, value |-> value]

\* isIdLikeColumn (kpis.ts 71-82)
isIdLikeColumn(col, info, rowCount) ==
    \/ nameHintsId(col)
    \/ info.inferredAs = "id"
    \/ (info.uniqueCount >= 20 /\ info.uniqueCount * 100 > 98 * MaxOf(1, info.nonMissingCount))

MinKpiSample == 25

\* scoreNumericCol, in thousandths
scoreNumericCol(col, info, rowCount) ==
    LET
        \* Math.log10(nn + 1) * 12 + Math.log10(spread + 1) * 10, in thousandths
        SpreadScore(nn, range, spread) ==
            IF range = 0 THEN 1000
            ELSE Log10Milli(nn + 1) * 12 + Log10Plus1Milli(spread) * 10
    IN
    IF isIdLikeColumn(col, info, rowCount) THEN 0
    ELSE IF info.nonMissingCount < MinKpiSample THEN 0
    ELSE IF ~info.min.ok \/ ~info.max.ok THEN 0
    ELSE SpreadScore(info.nonMissingCount, Abs(info.max.n - info.min.n),
                     IF info.stdev2.ok THEN SqrtMilli(info.stdev2.num, info.stdev2.den)
                     ELSE Abs(info.max.n - info.min.n) * 1000)

ColumnsOfType(e, ty) == SelectSeq(e.order, LAMBDA c : e.columns[c].type = ty)

BestOf(candidates, scoreOf) ==
    LET
        \* a < b for the fractions a and b (positive denominators)
        FracLess(a, b) == a.num * b.den < b.num * a.den
        \* the index of the first element of scores that no other one beats
        \* (if (!best || score > best.score) best = ...), or 0
        FirstBest(scores) ==
            LET I == {i \in 1..Len(scores) :
                        /\ \A j \in 1..(i - 1) : FracLess(scores[j], scores[i])
                        /\ \A j \in (i + 1)..Len(scores) : ~FracLess(scores[i], scores[j])}
            IN IF I = {} THEN 0 ELSE SetMin(I)
        \* the candidate at the index FirstBest gives, or ""
        BestAt(cands, b) == IF b = 0 THEN "" ELSE cands[b]
    IN
    BestAt(candidates, FirstBest(scoreOf))

\* pickBestCategorical: the column, or ""
pickBestCategorical(result, rowHint) ==
    LET
        \* Number(info?.nonMissingCount ?? 0) || rowCountHint
        CountOrHint(info, rowCountHint) ==
            IF info.nonMissingCount /= 0 THEN info.nonMissingCount ELSE rowCountHint
        \* the columns the loop of pickBestCategorical does not skip
        CategoricalEligible(c, info, nn, rowCountHint) ==
            /\ ~isIdLikeColumn(c, info, rowCountHint)
            /\ Len(info.topValues) > 0
            /\ ~(/\ info.uniqueCount >= 50
                 /\ nn > 0 /\ info.uniqueCount * 2 > nn
                 /\ info.topValues[1].pctNum < 40 * info.topValues[1].pctDen)
        \* dominance * 2 + (unique <= 12 ? 30 : unique <= 25 ? 15 : 0) + (uniqueRatio < 0.4 ? 10 : 0)
        CategoricalScore(info, nn) ==
            Frac(2 * info.topValues[1].pctNum
                   + ((IF info.uniqueCount <= 12 THEN 30
                       ELSE IF info.uniqueCount <= 25 THEN 15 ELSE 0)
                      + (IF nn > 0 /\ info.uniqueCount * 10 < 4 * nn THEN 10 ELSE 0))
                     * info.topValues[1].pctDen,
                 info.topValues[1].pctDen)
        BestCategoricalOf(e, cats, rowCountHint) ==
            BestOf(cats, [i \in 1..Len(cats) |->
                            CategoricalScore(e.columns[cats[i]],
                                             CountOrHint(e.columns[cats[i]], rowCountHint))])
    IN
    BestCategoricalOf(result,
        SelectSeq(ColumnsOfType(result, "categorical"),
                  LAMBDA c : CategoricalEligible(c, result.columns[c],
                                                 CountOrHint(result.columns[c], rowHint),
                                                 rowHint)),
        rowHint)

\* pickBestDate: the column, or ""
pickBestDate(result) ==
    LET
        BestDateOf(e, dates) ==
            BestOf(dates, [i \in 1..Len(dates) |->
                             Frac(Abs(e.columns[dates[i]].dmax.t - e.columns[dates[i]].dmin.t), 1)])
    IN
    BestDateOf(result, SelectSeq(ColumnsOfType(result, "date"),
                            LAMBDA c : result.columns[c].dmin.ok /\ result.columns[c].dmax.ok))

\* a strip that holds one KPI more than slice(0, 6) keeps
SevenKpis == 6 + 1

MaxKpis == 6
MaxNumericCandidates == 5

\* an optional profile argument (eda?: EDAResult | null)
NoEDA == [some |-> FALSE, v |-> EmptyEDA]
SomeEDA(e) == [some |-> TRUE, v |-> e]

\* the three KPIs of the numeric story (kpis.ts 224-228)
StoryOf(col, nums) ==
    << KPI("Total " \o col, "sum", col, <<"sum", SumSeq(nums)>>),
       KPI("Average " \o col, "mean", col, <<"mean", SumSeq(nums), Len(nums)>>),
       KPI(col \o " range", "range", col,
           <<"range", SetMin(Range(nums)), SetMax(Range(nums))>>) >>

\* generateKPIs(data, eda)
generateKPIs(dataset, optEda) ==
    LET
        \* the loop over the candidates: the first with at least 25 parsed values
        StoryOfUsable(d, usable) ==
            IF Len(usable) = 0 THEN <<>>
            ELSE StoryOf(usable[1], NumbersIn(ColumnValues(d, usable[1])))
        StoryOfCandidates(d, cands) ==
            StoryOfUsable(d, SelectSeq(cands,
                LAMBDA c : Len(NumbersIn(ColumnValues(d, c))) >= MinKpiSample))
        \* .sort((a, b) => b.score - a.score).slice(0, 5)
        RankedNumeric(e, scored, rowCount) ==
            Take(SortDescending(scored,
                    [i \in 1..Len(scored) |->
                       scoreNumericCol(scored[i], e.columns[scored[i]], rowCount)]),
                 MaxNumericCandidates)
        \* the numeric columns of a score above zero
        ScoredNumeric(e, rowCount) ==
            SelectSeq(ColumnsOfType(e, "numeric"),
                      LAMBDA c : scoreNumericCol(c, e.columns[c], rowCount) > 0)
        \* the numeric story: the KPIs of the first candidate with at least 25 parsed
        \* values (kpis.ts 196-231)
        NumericStory(d, e) ==
            StoryOfCandidates(d, RankedNumeric(e, ScoredNumeric(e, Len(d.rows)), Len(d.rows)))
        RowsKpi(d) == << KPI("Rows", "count", "", <<"count", Len(d.rows)>>) >>
        DuplicatesKpi(e) ==
            IF e.duplicates > 0
              THEN << KPI("Duplicates", "count", "", <<"count", e.duplicates>>) >>
              ELSE <<>>
        MissingRateKpi(totalMissing, totalCells) ==
            IF totalCells > 0
              THEN << KPI("Missing rate", "rate", "", <<"pct", 100 * totalMissing, totalCells>>) >>
              ELSE <<>>
        TopKpi(e, bestCat) ==
            IF bestCat /= ""
              THEN << KPI("Top " \o bestCat, "top", bestCat,
                          <<"top", e.columns[bestCat].topValues[1].value,
                            e.columns[bestCat].topValues[1].pctNum,
                            e.columns[bestCat].topValues[1].pctDen>>) >>
              ELSE <<>>
        SpanKpi(e, bestDate) ==
            IF bestDate /= ""
              THEN << KPI("Date span (" \o bestDate \o ")", "span", bestDate,
                          <<"span", e.columns[bestDate].dmin.t, e.columns[bestDate].dmax.t>>) >>
              ELSE <<>>
        \* the KPIs pushed when a profile is given (kpis.ts 173-254)
        ProfiledKpis(d, e) ==
            DuplicatesKpi(e)
            \o MissingRateKpi(SumSeq([i \in 1..Len(e.order) |-> e.columns[e.order[i]].missing]),
                              SumSeq([i \in 1..Len(e.order) |->
                                        e.columns[e.order[i]].missing
                                        + e.columns[e.order[i]].nonMissingCount]))
            \o NumericStory(d, e)
            \o TopKpi(e, pickBestCategorical(e, Len(d.rows)))
            \o SpanKpi(e, pickBestDate(e))
    IN
    IF Len(dataset.rows) = 0 THEN <<>>
    ELSE Take(RowsKpi(dataset) \o (IF optEda.some THEN ProfiledKpis(dataset, optEda.v) ELSE <<>>), MaxKpis)

(***************************************************************************)
(* The chart generator (charts.ts): helpers                                *)
(***************************************************************************)
\* isIdLikeNumeric (charts.ts 167-176)
isIdLikeNumeric(col, info, rowCount) ==
    \/ nameHintsId(col)
    \/ info.inferredAs = "id"
    \/ (info.uniqueCount >= 20 /\ info.uniqueCount * 100 > 98 * MaxOf(1, info.nonMissingCount))

\* isIdLikeCategorical (charts.ts 178-189)
isIdLikeCategorical(col, info) ==
    \/ nameHintsId(col)
    \/ info.inferredAs = "id"
    \/ (info.nonMissingCount /= 0 /\ info.uniqueCount * 10 > 9 * MaxOf(1, info.nonMissingCount))

\* isNameListColumn (charts.ts 192-202); dominance is 0 without top values
isNameListColumn(info) ==
    /\ info.nonMissingCount /= 0
    /\ info.uniqueCount >= 50
    /\ info.uniqueCount * 2 > MaxOf(1, info.nonMissingCount)
    /\ (Len(info.topValues) = 0 \/ info.topValues[1].pctNum < 40 * info.topValues[1].pctDen)

chooseBins(n) == IF n <= 30 THEN 8 ELSE IF n <= 200 THEN 10 ELSE IF n <= 1000 THEN 12 ELSE 14

\* computeHistogram(values, bins)
computeHistogram(values, binCount) ==
    LET
        NoHistogram == [ok |-> FALSE]
        \* Math.min(bins - 1, Math.max(0, Math.floor(((v - min) / span) * bins)))
        BinIndex(v, min, span, bins) == MinOf(bins - 1, MaxOf(0, ((v - min) * bins) \div span))
        \* the edge i is min + span * i / bins, kept as its numerator over bins
        HistogramOver(clean, bins, min, max, span) ==
            [ok |-> TRUE, min |-> min, max |-> max,
             edges |-> [i \in 1..(bins + 1) |-> min * bins + span * (i - 1)],
             counts |-> [b \in 1..bins |->
                           Cardinality({i \in 1..Len(clean) : BinIndex(clean[i], min, span, bins) = b - 1})],
             total |-> Len(clean)]
        HistogramOfSorted(clean, bins) ==
            IF Len(clean) = 0 THEN NoHistogram
            ELSE HistogramOver(clean, bins, clean[1], clean[Len(clean)],
                               IF clean[Len(clean)] - clean[1] = 0 THEN 1
                               ELSE clean[Len(clean)] - clean[1])
    IN
    HistogramOfSorted(SortNumbers(values), binCount)

\* quantileSorted(sorted, k / 4), in quarters
quantileSorted4(sortedValues, k) ==
    LET
        \* sorted[base] + (sorted[next] - sorted[base]) * rest, in quarters
        Interpolated4(a, b, rest4) == 4 * a + (b - a) * rest4
        QuantileAt4(sorted, pos4) ==
            Interpolated4(sorted[pos4 \div 4 + 1],
                          sorted[MinOf(Len(sorted) - 1, pos4 \div 4 + 1) + 1], pos4 % 4)
    IN
    IF Len(sortedValues) = 1 THEN 4 * sortedValues[1] ELSE QuantileAt4(sortedValues, (Len(sortedValues) - 1) * k)

MinBoxSample == 12

NoBox == [ok |-> FALSE]

\* computeBox(values); q1, median, q3 and iqr are in quarters
computeBox(values) ==
    LET
        \* the whiskers: the first value at or above the low fence, the last at or
        \* below the high fence
        WhiskerMin(clean, inLow) == IF inLow = {} THEN clean[1] ELSE clean[SetMin(inLow)]
        WhiskerMax(clean, inHigh) == IF inHigh = {} THEN clean[Len(clean)] ELSE clean[SetMax(inHigh)]
        \* the fences are in eighths
        BoxOfFences(clean, q1, median, q3, lowFence8, highFence8) ==
            [ok |-> TRUE,
             min |-> WhiskerMin(clean, {i \in 1..Len(clean) : 8 * clean[i] >= lowFence8}),
             q1 |-> q1, median |-> median, q3 |-> q3,
             max |-> WhiskerMax(clean, {i \in 1..Len(clean) : 8 * clean[i] <= highFence8}),
             iqr |-> q3 - q1,
             outliers |-> SelectSeq(clean, LAMBDA v : 8 * v < lowFence8 \/ 8 * v > highFence8),
             total |-> Len(clean)]
        BoxOfQuartiles(clean, q1, median, q3) ==
            BoxOfFences(clean, q1, median, q3, 2 * q1 - 3 * (q3 - q1), 2 * q3 + 3 * (q3 - q1))
        BoxOfSorted(clean) ==
            IF Len(clean) < MinBoxSample THEN NoBox
            ELSE BoxOfQuartiles(clean, quantileSorted4(clean, 1), quantileSorted4(clean, 2),
                                quantileSorted4(clean, 3))
    IN
    BoxOfSorted(SortNumbers(values))

MaxBars == 10

WithOtherOf(kept, nonMissingCount) ==
    LET
        WithOther(trimmed, other) ==
            IF other > 0 THEN Append(trimmed, [label |-> "Other", count |-> other]) ELSE trimmed
    IN
    WithOther(kept,
              MaxOf(0, nonMissingCount - SumSeq([i \in 1..Len(kept) |-> kept[i].count])))

Bars(tv) == [i \in 1..Len(tv) |-> [label |-> tv[i].value, count |-> tv[i].count]]

\* capTopValuesWithOther(info, maxBars)
capTopValuesWithOther(info, maxBars) ==
    WithOtherOf(Bars(Take(info.topValues, maxBars)), info.nonMissingCount)

formatDayKey(t) ==
    LET
        \* formatDayKey / formatMonthKey: "YYYY-MM-DD" and "YYYY-MM" as the numbers
        \* YYYYMMDD and YYYYMM (the same order as localeCompare on the keys)
        DayKeyOf(c) == c.y * 10000 + c.m * 100 + c.d
    IN
    DayKeyOf(CivilOf(t))
formatMonthKey(t) ==
    LET
        MonthKeyOf(c) == c.y * 100 + c.m
    IN
    MonthKeyOf(CivilOf(t))

MinTimePairs == 20
MinTimePoints == 8
DayGranularityDays == 90

\* the pairs <<a, b>> of parsed values both of which were read
OkPairs(ps) == SelectSeq(ps, LAMBDA p : p.a.ok /\ p.b.ok)

\* buildTimeSeries(data, dateCol, numCol)
buildTimeSeries(d, dateCol, numCol, eng) ==
    LET
        NoSeries == [ok |-> FALSE]
        \* the y of the pairs whose key is k, summed
        SumAtKey(pairs, key, k) ==
            SumSeq([i \in 1..Len(pairs) |-> IF key[i] = k THEN pairs[i].b.n ELSE 0])
        SeriesPoints(pairs, key, keys, granularity) ==
            IF Len(keys) < MinTimePoints THEN NoSeries
            ELSE [ok |-> TRUE,
                  points |-> [r \in 1..Len(keys) |-> [x |-> keys[r], y |-> SumAtKey(pairs, key, keys[r])]],
                  granularity |-> granularity, pairs |-> Len(pairs)]
        SeriesKeyed(pairs, key, granularity) ==
            SeriesPoints(pairs, key, IndexSeq(Range(key)), granularity)
        SeriesAt(pairs, granularity) ==
            SeriesKeyed(pairs,
                        [i \in 1..Len(pairs) |-> IF granularity = "day" THEN formatDayKey(pairs[i].a.t)
                                                 ELSE formatMonthKey(pairs[i].a.t)],
                        granularity)
        SeriesSpanning(pairs, first, last) ==
            SeriesAt(pairs, IF MaxOf(1, last - first) <= DayGranularityDays THEN "day" ELSE "month")
        SeriesOfPairs(pairs) ==
            IF Len(pairs) < MinTimePairs THEN NoSeries
            ELSE SeriesSpanning(pairs, SetMin({pairs[i].a.t : i \in 1..Len(pairs)}),
                                SetMax({pairs[i].a.t : i \in 1..Len(pairs)}))
    IN
    SeriesOfPairs(OkPairs([i \in 1..Len(d.rows) |->
                             [a |-> safeToDateLoose(Cell(d.rows[i], dateCol), eng),
                              b |-> safeToNumberLoose(Cell(d.rows[i], numCol))]]))

(***************************************************************************)
(* Relationship helpers                                                    *)
(***************************************************************************)

\* A correlation coefficient r as its sign and r * r = p / q in lowest terms;
\* the number the code puts in a matrix for "no coefficient" is 0.
Zero == [sign |-> 0, p |-> 0, q |-> 1]
One == [sign |-> 1, p |-> 1, q |-> 1]

\* n * sum(x[i] * y[i]) - sum(x) * sum(y): n times the code's sum of
\* (x[i] - mx) * (y[i] - my)
CoMoment(x, y) ==
    Len(x) * SumSeq([i \in 1..Len(x) |-> x[i] * y[i]]) - SumSeq(x) * SumSeq(y)

MinPearson == 8

\* pearson(x, y): num / Math.sqrt(dx * dy), or null
pearson(x, y) ==
    LET
        RECURSIVE Gcd(_, _)
        Gcd(a, b) == IF b = 0 THEN a ELSE Gcd(b, a % b)
        NoCoefficient == [ok |-> FALSE, r |-> Zero]
        \* (a / b) * (c / e) in lowest terms, a / b and c / e being in lowest terms
        ReducedProduct(sign, a, b, c, e) ==
            [sign |-> sign, p |-> (a \div Gcd(a, e)) * (c \div Gcd(c, b)),
             q |-> (b \div Gcd(c, b)) * (e \div Gcd(a, e))]
        \* the sign of num / sqrt(dx * dy) and its square (n / dx) * (n / dy), n = |num|
        SignedSquare(sign, n, dx, dy) ==
            ReducedProduct(sign, n \div Gcd(n, dx), dx \div Gcd(n, dx),
                           n \div Gcd(n, dy), dy \div Gcd(n, dy))
        CoefficientOf(num, dx, dy) ==
            IF dx = 0 \/ dy = 0 THEN NoCoefficient
            ELSE IF num = 0 THEN [ok |-> TRUE, r |-> Zero]
            ELSE [ok |-> TRUE, r |-> SignedSquare(IF num > 0 THEN 1 ELSE -1, Abs(num), dx, dy)]
    IN
    IF Len(x) /= Len(y) \/ Len(x) < MinPearson THEN NoCoefficient
    ELSE CoefficientOf(CoMoment(x, y), CoMoment(x, x), CoMoment(y, y))

\* stdev(xs) of charts.ts, in thousandths
stdevMilli(xs) ==
    IF Len(xs) < 2 THEN 0 ELSE SqrtMilli(CoMoment(xs, xs), Len(xs) * (Len(xs) - 1))

\* a smaller sample than the code asks for
TwentyPairs == 19 + 1

MinScatterPairs == 30
MaxScatterPoints == 1200

\* buildScatter(data, xCol, yCol)
buildScatter(d, xCol, yCol) ==
    LET
        NoScatter == [ok |-> FALSE]
        \* the points kept: all of them, or MaxScatterPoints of them at an even step
        SampledPoints(xs, ys) ==
            IF Len(xs) > MaxScatterPoints
              THEN [k \in 1..MaxScatterPoints |->
                      [x |-> xs[((k - 1) * Len(xs)) \div MaxScatterPoints + 1],
                       y |-> ys[((k - 1) * Len(xs)) \div MaxScatterPoints + 1]]]
              ELSE [k \in 1..Len(xs) |-> [x |-> xs[k], y |-> ys[k]]]
        ScatterOf(xs, ys) ==
            [ok |-> TRUE, points |-> SampledPoints(xs, ys), correlation |-> pearson(xs, ys),
             n |-> Len(xs), sx |-> stdevMilli(xs), sy |-> stdevMilli(ys)]
        ScatterOfPairs(pairs) ==
            IF Len(pairs) < MinScatterPairs THEN NoScatter
            ELSE ScatterOf([i \in 1..Len(pairs) |-> pairs[i].a.n], [i \in 1..Len(pairs) |-> pairs[i].b.n])
    IN
    ScatterOfPairs(OkPairs([i \in 1..Len(d.rows) |->
                              [a |-> safeToNumberLoose(Cell(d.rows[i], xCol)),
                               b |-> safeToNumberLoose(Cell(d.rows[i], yCol))]]))

MinCorrRows == 40

\* buildCorrMatrix(data, cols)
buildCorrMatrix(d, pickedCols) ==
    LET
        NoMatrix == [ok |-> FALSE]
        MatrixOfSeries(series) ==
            [i \in 1..Len(series) |-> [j \in 1..Len(series) |-> pearson(series[i], series[j]).r]]
        \* rs: the rows in which every column of cols was read, as the numbers read
        MatrixOfRows(rs, m) ==
            IF Len(rs) < MinCorrRows THEN NoMatrix
            ELSE [ok |-> TRUE, n |-> Len(rs),
                  matrix |-> MatrixOfSeries([k \in 1..m |-> [r \in 1..Len(rs) |-> rs[r][k].n]])]
        CompleteOnly(rs) == SelectSeq(rs, LAMBDA r : \A k \in 1..Len(r) : r[k].ok)
    IN
    MatrixOfRows(CompleteOnly([i \in 1..Len(d.rows) |->
                                 [k \in 1..Len(pickedCols) |->
                                    safeToNumberLoose(Cell(d.rows[i], pickedCols[k]))]]),
                 Len(pickedCols))

(***************************************************************************)
(* Fallback detection                                                      *)
(***************************************************************************)
FallbackSample == 250

\* sampleRows(data, n): the indices of the rows kept
sampleRows(length, count) ==
    LET
        \* the rows kept at a step: 0, step, 2 * step, ... while fewer than n are kept
        SampledAtStep(len, n, step) ==
            [k \in 1..MinOf(n, (len + step - 1) \div step) |-> (k - 1) * step + 1]
    IN
    IF length <= count THEN [i \in 1..length |-> i] ELSE SampledAtStep(length, count, MaxOf(1, length \div count))

MinFallbackSeen == 15

\* the loop body shared by detectDateLikeColumns and detectNumericLikeColumns
ScanColumn(dataset, name, Parser(_)) ==
    LET
        \* the cells of a column at the rows of the indices idx
        CellsAt(d, col, idx) == [k \in 1..Len(idx) |-> Cell(d.rows[idx[k]], col)]
        \* seen, ok and uniq.size over the non-missing sampled cells
        ScanCells(cells, Parses(_)) ==
            [seen |-> Len(cells),
             ok |-> Cardinality({k \in 1..Len(cells) : Parses(cells[k])}),
             uniq |-> Cardinality({StringOf(cells[k]) : k \in 1..Len(cells)})]
    IN
    ScanCells(NonMissing(CellsAt(dataset, name, sampleRows(Len(dataset.rows), FallbackSample))), Parser)

\* the columns not already of the type, seen often enough and read at the
\* ratio pct / 100, by score
DetectFromScan(allColumns, already, scanned, pct, limit) ==
    LET
        \* ratio * 100 + Math.min(cap, uniqRatio * cap), in thousandths
        FallbackScore(scan, cap) ==
            (1000 * (100 * scan.ok + MinOf(cap * scan.seen, cap * scan.uniq))) \div MaxOf(1, scan.seen)
        ColumnsAt(columns, idx) == [k \in 1..Len(idx) |-> columns[idx[k]]]
        \* scored.sort((a, b) => b.score - a.score).map((x) => x.col)
        RankKept(columns, scan, kept, cap) ==
            ColumnsAt(columns,
                      SortDescending(kept, [k \in 1..Len(kept) |-> FallbackScore(scan[kept[k]], cap)]))
    IN
    RankKept(allColumns, scanned,
             SelectSeq([i \in 1..Len(allColumns) |-> i],
                       LAMBDA i : /\ allColumns[i] \notin already
                                  /\ scanned[i].seen >= MinFallbackSeen
                                  /\ 100 * scanned[i].ok >= pct * scanned[i].seen),
             limit)

\* detectDateLikeColumns(data, columns, alreadyDateCols)
detectDateLikeColumns(d, columns, alreadyDateCols, eng) ==
    DetectFromScan(columns, alreadyDateCols,
                   [i \in 1..Len(columns) |->
                      ScanColumn(d, columns[i], LAMBDA v : safeToDateLoose(v, eng).ok)],
                   70, 20)

\* detectNumericLikeColumns(data, columns, alreadyNumeric)
detectNumericLikeColumns(d, columns, alreadyNumeric) ==
    DetectFromScan(columns, alreadyNumeric,
                   [i \in 1..Len(columns) |->
                      ScanColumn(d, columns[i], LAMBDA v : safeToNumberLoose(v).ok)],
                   85, 10)

(***************************************************************************)
(* Chart selection (diversity rule)                                        *)
(***************************************************************************)
Candidate(spec, score, purpose) == [spec |-> spec, score |-> score, purpose |-> purpose]

MinCharts == 4
MaxCharts == 8

\* pMax and tMax of canTake
pMax(p) == 2
tMax(t) == IF t \in {"box", "scatter", "corr"} THEN 1 ELSE 2

\* a pass that takes whatever it meets
TakeAny(sorted, taken, c) == TRUE

\* canTake(c) against the candidates taken
CanTake(sorted, taken, c) ==
    /\ Cardinality({k \in 1..Len(taken) : sorted[taken[k]].purpose = c.purpose})
         < pMax(c.purpose)
    /\ Cardinality({k \in 1..Len(taken) : sorted[taken[k]].spec.type = c.spec.type})
         < tMax(c.spec.type)

\* pickDiverse without its second loop
NoBackfill(sorted, first, min) == first

\* if (picked.length < min) the second loop runs
BackfillIfShort(ranked, first, atLeast) ==
    LET
        \* the second loop of pickDiverse: fill up to min with the best not yet picked
        RECURSIVE Backfill(_, _, _, _)
        Backfill(sorted, from, taken, min) ==
            IF from > Len(sorted) \/ Len(taken) >= min THEN taken
            ELSE Backfill(sorted, from + 1,
                          IF from \in Range(taken) THEN taken ELSE Append(taken, from), min)
    IN
    IF Len(first) < atLeast THEN Backfill(ranked, 1, first, atLeast) ELSE first

\* pickDiverse(cands, min, max)
pickDiverse(cands, atLeast, atMost) ==
    LET
        \* the first loop of pickDiverse over sorted[from..]: taken is the sequence of
        \* the indices of sorted picked so far
        RECURSIVE TakeDiverse(_, _, _, _)
        TakeDiverse(sorted, from, taken, max) ==
            IF from > Len(sorted) \/ Len(taken) >= max THEN taken
            ELSE TakeDiverse(sorted, from + 1,
                             IF CanTake(sorted, taken, sorted[from]) THEN Append(taken, from)
                             ELSE taken,
                             max)
        \* picked.slice(0, max).map((c) => c.spec)
        SpecsAt(sorted, picked, max) == Take([k \in 1..Len(picked) |-> sorted[picked[k]].spec], max)
        PickSorted(sorted, min, max) ==
            SpecsAt(sorted, BackfillIfShort(sorted, TakeDiverse(sorted, 1, <<>>, max), min), max)
    IN
    PickSorted(SortDescending(cands, [i \in 1..Len(cands) |-> cands[i].score]), atLeast, atMost)

(***************************************************************************)
(* generateCharts (charts.ts)                                              *)
(***************************************************************************)

MaxOutliersShown == 200

\* the bar candidate of a list of bars
BarCandidate(name, barList) ==
    LET
        BarOf(col, bars, counts, total) ==
            Candidate([type |-> "bar", column |-> col,
                       labels |-> [i \in 1..Len(bars) |-> bars[i].label],
                       counts |-> counts, maxBars |-> MaxBars, purpose |-> "composition"],
                      10 * Log10Milli(total + 1) + (60000 * bars[1].count) \div total,
                      "composition")
        BarOfCounts(col, bars, counts) ==
            BarOf(col, bars, counts, IF SumSeq(counts) = 0 THEN 1 ELSE SumSeq(counts))
    IN
    BarOfCounts(name, barList, [i \in 1..Len(barList) |-> barList[i].count])

RECURSIVE Flatten(_)
Flatten(ss) == IF Len(ss) = 0 THEN <<>> ELSE ss[1] \o Flatten(Tail(ss))

MinCorrColumns == 4
MaxCorrColumns == 10

\* the candidate pool of generateCharts, in the order the code pushes it
ChartCandidates(dataset, result, dateEngine) ==
    LET
        \* Math.abs(r), in thousandths
        AbsMilli(r) == IF r.sign = 0 THEN 0 ELSE SqrtMilli(r.p, r.q)
        \* s without the elements that occur earlier in s (Array.from(new Set(s)))
        Dedupe(s) == SelectSeq([i \in 1..Len(s) |-> IF \E j \in 1..(i - 1) : s[j] = s[i] THEN "" ELSE s[i]],
                               LAMBDA c : c /= "")
        ColumnLists(allCols, numericCols, dateCols, catColsFromEDA, inferredNumericCols,
                    inferredDateCols) ==
            [allCols |-> allCols, numericCols |-> numericCols, dateCols |-> dateCols,
             catCols |-> Dedupe(catColsFromEDA
                                \o SelectSeq(allCols, LAMBDA c : c \notin Range(numericCols)
                                                                 /\ c \notin Range(dateCols))),
             inferredNumericCols |-> inferredNumericCols, inferredDateCols |-> inferredDateCols]
        ColumnsWithInferred(e, numericColsFromEDA, dateColsFromEDA, inferredNumericCols,
                            inferredDateCols) ==
            ColumnLists(e.order, numericColsFromEDA \o inferredNumericCols,
                        dateColsFromEDA \o inferredDateCols,
                        SelectSeq(e.order, LAMBDA c : e.columns[c].type = "categorical"),
                        inferredNumericCols, inferredDateCols)
        ColumnsWithFallback(d, e, eng, numericColsFromEDA, dateColsFromEDA) ==
            ColumnsWithInferred(e, numericColsFromEDA, dateColsFromEDA,
                                detectNumericLikeColumns(d, e.order, Range(numericColsFromEDA)),
                                detectDateLikeColumns(d, e.order, Range(dateColsFromEDA), eng))
        \* the column lists of generateCharts (charts.ts 615-651); column names are
        \* non-empty and not integer-like, so Object.entries keeps insertion order
        ChartColumns(d, e, eng) ==
            ColumnsWithFallback(d, e, eng,
                SelectSeq(e.order, LAMBDA c : /\ e.columns[c].type = "numeric"
                                              /\ ~isIdLikeNumeric(c, e.columns[c], Len(d.rows))),
                SelectSeq(e.order, LAMBDA c : e.columns[c].type = "date"))
        \* the finite numbers of a column, in row order
        NumbersOf(d, col) == NumbersIn(ColumnValues(d, col))
        HistogramCandidate(col, bins, computed) ==
            IF ~computed.ok THEN <<>>
            ELSE << Candidate([type |-> "histogram", column |-> col, bins |-> bins,
                               edges |-> computed.edges, counts |-> computed.counts,
                               min |-> computed.min, max |-> computed.max,
                               total |-> computed.total, purpose |-> "distribution"],
                              10 * Log10Milli(computed.total + 1)
                                + 10 * Log10Milli(computed.max - computed.min + 1),
                              "distribution") >>
        BoxCandidate(col, box) ==
            IF ~box.ok THEN <<>>
            ELSE << Candidate([type |-> "box", column |-> col, min |-> box.min, q1 |-> box.q1,
                               median |-> box.median, q3 |-> box.q3, max |-> box.max,
                               iqr |-> box.iqr, outliers |-> Take(box.outliers, MaxOutliersShown),
                               total |-> box.total, purpose |-> "distribution"],
                              10 * Log10Milli(box.total + 1)
                                + 12 * Log10Plus1Milli(250 * Abs(box.iqr))
                                + MinOf(25000, (120000 * Len(box.outliers)) \div MaxOf(1, box.total)),
                              "distribution") >>
        DistributionOf(col, values) ==
            IF Len(values) < MinBoxSample THEN <<>>
            ELSE HistogramCandidate(col, chooseBins(Len(values)),
                                    computeHistogram(values, chooseBins(Len(values))))
                 \o BoxCandidate(col, computeBox(values))
        \* the candidates one numeric column contributes (charts.ts 654-716)
        DistributionCandidates(d, e, col) ==
            IF isIdLikeNumeric(col, e.columns[col], Len(d.rows)) THEN <<>>
            ELSE DistributionOf(col, NumbersOf(d, col))
        \* the bars counted from the rows when the profile has no top values
        CountedBars(col, uniques) ==
            IF Len(uniques) = 0 THEN <<>>
            ELSE << BarCandidate(col,
                      WithOtherOf(Bars(Take(SortDescending(uniques,
                                               [i \in 1..Len(uniques) |-> uniques[i].count]),
                                            MaxBars)),
                                  SumSeq([i \in 1..Len(uniques) |-> uniques[i].count]))) >>
        \* the candidates one categorical column contributes (charts.ts 719-794)
        CompositionCandidates(d, e, cc, col) ==
            IF col \in Range(cc.numericCols) \/ col \in Range(cc.dateCols) THEN <<>>
            ELSE IF isIdLikeCategorical(col, e.columns[col]) THEN <<>>
            ELSE IF isNameListColumn(e.columns[col]) THEN <<>>
            ELSE IF Len(e.columns[col].topValues) > 0
              THEN << BarCandidate(col, capTopValuesWithOther(e.columns[col], MaxBars)) >>
            ELSE CountedBars(col, Uniques(ColumnValues(d, col)))
        \* Math.abs(max - min) of the y of the points
        YRange(points) ==
            Abs(SetMax({points[i].y : i \in 1..Len(points)})
                - SetMin({points[i].y : i \in 1..Len(points)}))
        TrendOf(dcol, ncol, built) ==
            IF ~built.ok THEN <<>>
            ELSE << Candidate([type |-> "time", column |-> ncol \o " over " \o dcol,
                               xColumn |-> dcol, yColumn |-> ncol, points |-> built.points,
                               granularity |-> built.granularity, purpose |-> "trend"],
                              2000 * Len(built.points) + 12 * Log10Milli(YRange(built.points) + 1),
                              "trend") >>
        \* the candidates one (date, numeric) pair contributes (charts.ts 797-825)
        TrendCandidates(d, dcol, ncol, eng) ==
            IF nameHintsId(dcol) THEN <<>> ELSE TrendOf(dcol, ncol, buildTimeSeries(d, dcol, ncol, eng))
        ScatterOfBuilt(xCol, yCol, built) ==
            IF ~built.ok THEN <<>>
            ELSE << Candidate([type |-> "scatter", column |-> yCol \o " vs " \o xCol,
                               xColumn |-> xCol, yColumn |-> yCol, points |-> built.points,
                               correlation |-> built.correlation, purpose |-> "relationship"],
                              20 * built.n + 80 * AbsMilli(built.correlation.r)
                                + 10 * Log10Plus1Milli(built.sx + built.sy),
                              "relationship") >>
        \* the scatter candidate of a pair of numeric columns (charts.ts 829-856)
        ScatterCandidates(d, xCol, yCol) == ScatterOfBuilt(xCol, yCol, buildScatter(d, xCol, yCol))
        \* stdev of the profile, in thousandths (0 when the profile has none)
        ProfileStdevMilli(info) ==
            IF info.stdev2.ok THEN SqrtMilli(info.stdev2.num, info.stdev2.den) ELSE 0
        \* the largest |r| off the diagonal, in thousandths
        MaxOffDiagonal(matrix) ==
            SetMax({0} \cup {AbsMilli(matrix[ij[1]][ij[2]]) :
                               ij \in {p \in (1..Len(matrix)) \X (1..Len(matrix)) : p[1] /= p[2]}})
        CorrOf(ranked, built) ==
            IF ~built.ok THEN <<>>
            ELSE << Candidate([type |-> "corr", column |-> "Correlation (numeric)",
                               columns |-> ranked, matrix |-> built.matrix,
                               purpose |-> "relationship"],
                              10000 * Len(ranked) + 30 * built.n + 120 * MaxOffDiagonal(built.matrix),
                              "relationship") >>
        CorrOfRanked(d, ranked) == CorrOf(ranked, buildCorrMatrix(d, ranked))
        \* the numeric columns by variation, the first ten
        RankedForCorr(e, numericCols) ==
            Take(SortDescending(numericCols,
                    [i \in 1..Len(numericCols) |->
                       10 * Log10Plus1Milli(ProfileStdevMilli(e.columns[numericCols[i]]))
                         + 2 * Log10Milli(e.columns[numericCols[i]].uniqueCount + 1)]),
                 MaxCorrColumns)
        \* the correlation heatmap candidate (charts.ts 862-900)
        CorrelationCandidates(d, e, numericCols) ==
            IF Len(numericCols) < MinCorrColumns THEN <<>>
            ELSE CorrOfRanked(d, RankedForCorr(e, numericCols))
        \* the scatter of every pair of numeric columns, the second after the first
        AllScatters(d, nc) ==
            Flatten([i \in 1..Len(nc) |->
               Flatten([j \in 1..Len(nc) |->
                  IF j > i THEN ScatterCandidates(d, nc[i], nc[j]) ELSE <<>>])])
        \* the best scatter only
        BestScatter(scatters) ==
            Take(SortDescending(scatters, [k \in 1..Len(scatters) |-> scatters[k].score]), 1)
        CandidatesOf(d, e, cc, eng) ==
            Flatten([i \in 1..Len(cc.numericCols) |-> DistributionCandidates(d, e, cc.numericCols[i])])
            \o Flatten([i \in 1..Len(cc.catCols) |-> CompositionCandidates(d, e, cc, cc.catCols[i])])
            \o Flatten([i \in 1..Len(cc.dateCols) |->
                  Flatten([j \in 1..Len(cc.numericCols) |->
                     TrendCandidates(d, cc.dateCols[i], cc.numericCols[j], eng)])])
            \o BestScatter(AllScatters(d, cc.numericCols))
            \o CorrelationCandidates(d, e, cc.numericCols)
    IN
    CandidatesOf(dataset, result, ChartColumns(dataset, result, dateEngine), dateEngine)

\* generateCharts(data, eda)
generateCharts(d, e, eng) ==
    IF Len(d.rows) = 0 THEN <<>>
    ELSE pickDiverse(ChartCandidates(d, e, eng), MinCharts, MaxCharts)

(***************************************************************************)
(* The insight generator (insights.ts)                                     *)
(***************************************************************************)

\* the characters normalizeKey keeps, after lowercasing
KeyChars == Range(LowerLetters) \cup {"0", "1", "2", "3", "4", "5", "6", "7", "8", "9"}

RECURSIVE KeepChars(_, _)
KeepChars(s, C) ==
    IF Len(s) = 0 THEN ""
    ELSE (IF Char(s, 1) \in C THEN Char(s, 1) ELSE "") \o KeepChars(SubSeq(s, 2, Len(s)), C)

\* normalizeKey of insights.ts (22-28)
insightKey(s) == KeepChars(toLowerCase(s), KeyChars)

NoColumn == [ok |-> FALSE, col |-> ""]
SomeColumn(c) == [ok |-> TRUE, col |-> c]

\* resolveColumn of insights.ts (30-37): exact match on the normalized keys
insightColumn(raw, order) ==
    LET target == insightKey(raw)
        hit == FirstIndex(order, LAMBDA c : insightKey(c) = target)
    IN IF target = "" \/ hit = 0 THEN NoColumn ELSE SomeColumn(order[hit])

\* a push that does not look for the id
pushAlways(into, item) == Append(into, item)

\* pushUnique(into, item)
pushUnique(into, item) ==
    IF \E i \in 1..Len(into) : into[i].id = item.id THEN into ELSE Append(into, item)

weight(severity) == IF severity = "warning" THEN 0 ELSE IF severity = "positive" THEN 1 ELSE 2

\* sortBusiness(insights)
sortBusiness(ins) == SortAscending(ins, [i \in 1..Len(ins) |-> weight(ins[i].severity)])

\* an insight; its text is kept as the rule that wrote it and the values the
\* rule interpolates
Insight(id, severity, column, action, text) ==
    [id |-> id, severity |-> severity, column |-> column, action |-> action, text |-> text]

\* Math.round(100 * a / b) for a, b >= 0
RoundPct(a, b) == (200 * a + b) \div (2 * b)

\* the first element of s that satisfies T, as a sequence of at most one
FindFirst(s, T(_)) == LET i == FirstIndex(s, T) IN IF i = 0 THEN <<>> ELSE <<s[i]>>

MaterialMissingPct == 25
WarningMissingPct == 40

StrongOutlierRatio == 3

DominancePct == 70

GranularDates == 30

MaxInsights == 6
MaxOutlierInsights == 2

\* every candidate ranked alike
SameScore(top, uniqueCount) == 0

\* the score of a dominance candidate, pct * 2 - uniqueCount, in thousandths
DominanceScore(top, uniqueCount) == (2000 * top.pctNum) \div top.pctDen - 1000 * uniqueCount

\* generateInsights(eda, kpis)
generateInsights(result, kpiList) ==
    LET
        \* s sorted by a comparator that puts a before b when Before(a, b); stable
        SortBefore(s, Before(_, _)) ==
            LET n == Len(s)
                rk == [i \in 1..n |->
                         Cardinality({j \in 1..n : j /= i /\ (Before(s[j], s[i])
                                                               \/ (~Before(s[i], s[j]) /\ j < i))}) + 1]
                at == [r \in 1..n |-> CHOOSE i \in 1..n : rk[i] = r]
            IN [r \in 1..n |-> s[at[r]]]
        RECURSIVE PushAll(_, _)
        PushAll(into, items) ==
            IF Len(items) = 0 THEN into ELSE PushAll(pushUnique(into, items[1]), Tail(items))
        \* section 1: data-quality warnings (insights.ts 125-158)
        QualityInsights(e) ==
            (IF e.duplicates > 0
               THEN << Insight("duplicates", "warning", "", "clean", <<"duplicates", e.duplicates>>) >>
               ELSE <<>>)
            \o (IF Len(e.emptyColumns) > 0
                  THEN << Insight("empty-cols", "warning", "", "clean",
                                  <<"empty", Take(e.emptyColumns, 4), Len(e.emptyColumns) > 4>>) >>
                  ELSE <<>>)
            \o (IF Len(e.constantColumns) > 0
                  THEN << Insight("constant-cols", "info", "", "clean",
                                  <<"constant", Take(e.constantColumns, 4), Len(e.constantColumns) > 4>>) >>
                  ELSE <<>>)
        \* section 2: missingness of one column (insights.ts 163-187)
        MissingInsights(e, col) ==
            LET info == e.columns[col]
                totalApprox == info.missing + info.nonMissingCount
            IN IF totalApprox > 0 /\ 100 * info.missing >= MaterialMissingPct * totalApprox
                 THEN << Insight(col \o "-missing",
                                 IF 100 * info.missing >= WarningMissingPct * totalApprox
                                   THEN "warning" ELSE "info",
                                 col, "clean", <<"missing", col, RoundPct(info.missing, totalApprox)>>) >>
                 ELSE <<>>
        \* the score of an outlier candidate: (isMain ? 100 : 0) + ratio * 10 - minus,
        \* where ratio is max / mean in thousandths when the mean is positive and
        \* max * 10^9 (big) when it is negative (Math.max(1e-9, mean))
        OutlierScore(info, isMain, minus) ==
            [big |-> info.mean.num < 0, main |-> IF isMain THEN 1 ELSE 0, minus |-> minus,
             max |-> info.max.n,
             milli |-> IF info.mean.num > 0
                         THEN (IF isMain THEN 100000 ELSE 0) - 1000 * minus
                                + 10 * ((1000 * info.max.n * info.mean.den) \div info.mean.num)
                         ELSE 0]
        \* a has the higher score
        ScoreBefore(a, b) ==
            IF a.big /\ b.big
              THEN a.max > b.max \/ (a.max = b.max /\ 100 * a.main - a.minus > 100 * b.main - b.minus)
            ELSE IF a.big \/ b.big THEN a.big
            ELSE a.milli > b.milli
        \* section 3: the outlier candidates of one column (insights.ts 194-266)
        OutlierCandidates(e, col, mainMetricCol) ==
            LET info == e.columns[col]
                mean == info.mean
                isMain == mainMetricCol.ok /\ mainMetricCol.col = col
                strongOutlier == IF mean.num < 0 THEN info.max.n >= 1
                                 ELSE info.max.n * mean.den >= StrongOutlierRatio * mean.num
                \* mean / median >= 1.1, with the median doubled
                skewHint == /\ info.median2.ok /\ info.median2.n > 0 /\ mean.num > 0
                            /\ 20 * mean.num >= 11 * info.median2.n * mean.den
            IN IF info.type /= "numeric" \/ ~info.max.ok \/ ~mean.ok \/ mean.num = 0 \/ ~strongOutlier
                 THEN <<>>
                 ELSE << [col |-> col, score |-> OutlierScore(info, isMain, 0),
                          insight |-> Insight("outlier-" \o insightKey(col), "warning", col,
                                              "investigate", <<"outlier", col, isMain>>)] >>
                      \o (IF info.min.ok /\ info.min.n < 0
                            THEN << [col |-> col, score |-> OutlierScore(info, isMain, 20),
                                     insight |-> Insight("negatives-" \o insightKey(col), "info", col,
                                                         "investigate", <<"negatives", col>>)] >>
                            ELSE <<>>)
                      \o (IF skewHint
                            THEN << [col |-> col, score |-> OutlierScore(info, isMain, 25),
                                     insight |-> Insight("skew-" \o insightKey(col), "info", col,
                                                         "monitor", <<"skew", col>>)] >>
                            ELSE <<>>)
        \* section 4: the dominance candidate of one column (insights.ts 279-305)
        DominanceCandidates(e, col) ==
            LET info == e.columns[col]
                top == info.topValues[1]
            IN IF info.type = "categorical" /\ Len(info.topValues) > 0
                  /\ top.pctNum >= DominancePct * top.pctDen /\ info.uniqueCount >= 2
                 THEN << [col |-> col,
                          score |-> DominanceScore(top, info.uniqueCount),
                          insight |-> Insight("dominance-" \o insightKey(col), "info", col, "segment",
                                              <<"dominance", col, top.value,
                                                RoundPct(top.count, top.pctDen)>>)] >>
                 ELSE <<>>
        \* section 5: date coverage (insights.ts 315-338)
        CoverageInsights(e) ==
            LET dates == FindFirst(e.order, LAMBDA c : e.columns[c].type = "date")
                info == e.columns[dates[1]]
            IN IF Len(dates) > 0 /\ info.dmin.ok /\ info.dmax.ok
                 THEN << Insight(dates[1] \o "-coverage", "info", dates[1], "monitor",
                                 <<"coverage", dates[1], info.dmin.t, info.dmax.t,
                                   info.uniqueCount >= GranularDates, info.uniqueCount>>) >>
                 ELSE <<>>
        \* section 7: the positive headline (insights.ts 350-373)
        HeadlineInsights(e, ks) ==
            LET sumKpi == FindFirst(ks, LAMBDA k : k.type = "sum" /\ k.column /= "")
                meanKpi == FindFirst(ks, LAMBDA k : k.type = "mean" /\ k.column /= "")
                named(k) == LET r == insightColumn(k.column, e.order)
                            IN IF r.ok THEN r.col ELSE k.column
            IN IF Len(sumKpi) > 0
                 THEN << Insight("headline-total-" \o insightKey(named(sumKpi[1])), "positive",
                                 named(sumKpi[1]), "report",
                                 <<"headline-total", named(sumKpi[1]), sumKpi[1].value>>) >>
               ELSE IF Len(meanKpi) > 0
                 THEN << Insight("headline-avg-" \o insightKey(named(meanKpi[1])), "positive",
                                 named(meanKpi[1]), "report",
                                 <<"headline-avg", named(meanKpi[1]), meanKpi[1].value>>) >>
               ELSE <<>>
        \* the insights pushed, before sortBusiness and the cap
        PushedInsights(e, ks) ==
            LET mainMetric == FindFirst(ks, LAMBDA k : k.type = "sum" /\ k.column /= "")
                              \o FindFirst(ks, LAMBDA k : k.type = "mean" /\ k.column /= "")
                mainMetricCol == IF Len(mainMetric) > 0 THEN insightColumn(mainMetric[1].column, e.order)
                                 ELSE NoColumn
                outliers == SortBefore(Flatten([i \in 1..Len(e.order) |->
                                          OutlierCandidates(e, e.order[i], mainMetricCol)]),
                                       LAMBDA a, b : ScoreBefore(a.score, b.score))
                dominance == LET c == Flatten([i \in 1..Len(e.order) |-> DominanceCandidates(e, e.order[i])])
                             IN SortDescending(c, [i \in 1..Len(c) |-> c[i].score])
                chosen == Take(outliers, MaxOutlierInsights) \o Take(dominance, 1)
            IN PushAll(<<>>,
                       QualityInsights(e)
                       \o Flatten([i \in 1..Len(e.order) |-> MissingInsights(e, e.order[i])])
                       \o [i \in 1..Len(chosen) |-> chosen[i].insight]
                       \o CoverageInsights(e)
                       \o HeadlineInsights(e, ks))
    IN
    Take(sortBusiness(PushedInsights(result, kpiList)), MaxInsights)

(***************************************************************************)
(* The question engine (ask.ts)                                            *)
(***************************************************************************)
\* the dash the answers print for a value they lack (U+2014)
EmDash == "-"

\* two digits
Pad2(n) == IF n < 10 THEN "0" \o ToString(n) ELSE ToString(n)

\* /a.*b/
IncludesThen(s, a, b) ==
    \E i \in 1..Len(s) : /\ i + Len(a) - 1 <= Len(s)
                         /\ SubSeq(s, i, i + Len(a) - 1) = a
                         /\ includes(SubSeq(s, i + Len(a), Len(s)), b)

StartsSpaced(text, keyword) ==
    LET
        \* /^\s*word\s+/
        TrimmedStartsSpaced(u, word) ==
            startsWith(u, word) /\ Len(u) > Len(word) /\ IsSpace(Char(u, Len(word) + 1))
    IN
    TrimmedStartsSpaced(trim(text), keyword)

IncludesAny(s, P) == \E p \in P : includes(s, p)

\* normalizeKey of ask.ts (16-24): trimmed, lowercased, and every character
\* outside [a-z0-9] removed (whitespace and underscores first)
normalizeKey(s) == KeepChars(toLowerCase(trim(s)), KeyChars)

\* resolveColumn with the containment loop run before the exact loop
ContainmentFirst(order, exact, contains) ==
    IF contains /= 0 THEN SomeColumn(order[contains])
    ELSE IF exact /= 0 THEN SomeColumn(order[exact])
    ELSE NoColumn

\* resolveColumn(raw, eda) of ask.ts (26-46): the exact matches are tried on
\* every column before the containment matches
ResolvedAt(order, exact, contains) ==
    IF exact /= 0 THEN SomeColumn(order[exact])
    ELSE IF contains /= 0 THEN SomeColumn(order[contains])
    ELSE NoColumn

resolveColumn(raw, e) ==
    LET
        ResolveKey(target, order) ==
            IF target = "" THEN NoColumn
            ELSE ResolvedAt(order,
                            FirstIndex(order, LAMBDA c : normalizeKey(c) = target),
                            FirstIndex(order, LAMBDA c : \/ includes(normalizeKey(c), target)
                                                         \/ includes(target, normalizeKey(c))))
        ResolveTrimmed(rawStr, order) ==
            IF rawStr = "" THEN NoColumn ELSE ResolveKey(normalizeKey(rawStr), order)
    IN
    ResolveTrimmed(trim(raw), e.order)

Million == 1000000

\* fmtNum(v) for a field of a numeric profile, a number or null; n(null) is
\* Number(null), which is 0.  (Values of 10^9 and more are outside the model.)
fmtNum(v) ==
    LET
        \* n.toLocaleString() for an integer n >= 0 (en-US grouping)
        RECURSIVE Grouped(_)
        Grouped(n) ==
            IF n < 1000 THEN ToString(n)
            ELSE Grouped(n \div 1000) \o ","
                 \o (IF n % 1000 < 10 THEN "00" ELSE IF n % 1000 < 100 THEN "0" ELSE "")
                 \o ToString(n % 1000)
        \* (num / den).toFixed(2)
        toFixed2(num, den) ==
            LET h == (200 * Abs(num) + den) \div (2 * den)
            IN (IF num < 0 /\ h > 0 THEN "-" ELSE "") \o ToString(h \div 100) \o "." \o Pad2(h % 100)
    IN
    LET num == IF v.ok THEN v.num ELSE 0
        den == IF v.ok THEN v.den ELSE 1
        rounded == (2 * num + den) \div (2 * den)
    IN IF Abs(num) >= Million * den THEN toFixed2(num, den * Million) \o "M"
       ELSE IF Abs(num) >= 1000 * den
         THEN (IF rounded < 0 THEN "-" ELSE "") \o Grouped(Abs(rounded))
       ELSE IF num % den = 0
         THEN (IF num < 0 THEN "-" ELSE "") \o Grouped(Abs(num) \div den)
       ELSE toFixed2(num, den)

\* fmtPct(top?.pct)
fmtPct(tops) ==
    IF Len(tops) = 0 THEN EmDash ELSE ToString(RoundPct(tops[1].count, tops[1].pctDen)) \o "%"

mainNumericFromKpis(ks) ==
    LET
        \* mainNumericFromKpis(kpis), as a sequence of at most one KPI
        FirstOr(first, second) == IF Len(first) > 0 THEN first ELSE second
    IN
    FirstOr(FindFirst(ks, LAMBDA k : k.type = "sum" /\ k.column /= ""),
            FindFirst(ks, LAMBDA k : k.type = "mean" /\ k.column /= ""))

isSummary(q) == IncludesAny(q, {"summarise", "summarize", "summary", "overview"})
isWhatStandsOut(q) == IncludesAny(q, {"what stands out", "stand out"})
isMainMetric(q) == IncludesAny(q, {"main metric", "primary metric", "key metric"})
isTop(q) == StartsSpaced(q, "top")
isExplain(q) == StartsSpaced(q, "explain")
isDistribution(q) ==
    LET
        \* /word\s+/
        IncludesSpaced(s, word) ==
            \E i \in 1..Len(s) : /\ i + Len(word) <= Len(s)
                                 /\ SubSeq(s, i, i + Len(word) - 1) = word
                                 /\ IsSpace(Char(s, i + Len(word)))
    IN
    IncludesSpaced(q, "distribution") \/ IncludesSpaced(q, "dist of")
isOutliers(q) == IncludesAny(q, {"outlier", "anomal"})
isSkew(q) == IncludesAny(q, {"skew", "mean", "median", "average", "robust"})
isTime(q) == IncludesAny(q, {"time coverage", "time range", "date range", "time trend", "trend",
                            "time series", "season"})
isKpiGap(q) == \/ IncludesAny(q, {"missing kpi", "what kpis", "kpi gaps", "dashboard kpis"})
               \/ IncludesThen(q, "kpi", "missing")
isNextSteps(q) == IncludesAny(q, {"what would you investigate next", "investigate next",
                                 "next steps", "what next"})
isNotAnswerable(q) == \/ IncludesAny(q, {"cannot answer", "can't answer", "not answer", "limitations"})
                      \/ IncludesThen(q, "what questions", "not")
isDataImprove(q) == \/ IncludesAny(q, {"improve decision", "what would you add"})
                    \/ IncludesThen(q, "what data", "improve")
                    \/ IncludesThen(q, "add", "improve")
isExec(q) == IncludesAny(q, {"executive", "stakeholder", "highlight", "warn", "risk", "assumption",
                            "mislead", "mistake", "decision"})

Fixed(kind, text) == [kind |-> kind, text |-> text]

MaxTopValuesListed == 5

\* firstDateColumn(columns) of ask.ts (72-77), as a sequence of at most one
firstDateColumn(e) == FindFirst(e.order, LAMBDA c : e.columns[c].type = "date")

\* the time answer (ask.ts 284-305)
TimeOfColumn(q, col, info) ==
    [kind |-> "time", column |-> col, min |-> info.dmin, max |-> info.dmax,
     uniqueCount |-> info.uniqueCount,
     advice |-> IF includes(q, "season") THEN "seasonality"
                ELSE IF IncludesAny(q, {"reveal", "appropriate", "trend analysis"})
                  THEN "trend" ELSE ""]

\* the time answer without the hasDate test: the question falls through to
\* the generic answer
TimeWithoutTest(q, e, dates) ==
    IF Len(dates) = 0
      THEN Fixed("fallback", "Based on the dataset structure and available statistics: ...")
      ELSE TimeOfColumn(q, dates[1], e.columns[dates[1]])

TimeOfDates(q, e, dates) ==
    LET
        NoDateColumnSentence == "This dataset does not contain a date column suitable for time analysis."
    IN
    IF Len(dates) = 0 THEN Fixed("no-date-column", NoDateColumnSentence)
    ELSE TimeOfColumn(q, dates[1], e.columns[dates[1]])

\* the arguments of answerQuestion a caller may leave out
OptionalArgs == {"eda", "kpis", "insights"}

\* the last test that holds, or 0
LastTaken(tests) ==
    IF \E i \in 1..Len(tests) : tests[i]
      THEN SetMax({i \in 1..Len(tests) : tests[i]}) ELSE 0

\* the branch a chain of if (test) return ...; takes: the first test that
\* holds, or 0
FirstTaken(tests) ==
    IF \E i \in 1..Len(tests) : tests[i]
      THEN SetMin({i \in 1..Len(tests) : tests[i]}) ELSE 0

\* answerQuestion({ q, meta, eda, kpis, charts, insights }); meta is the
\* number of rows and of columns; eda, kpis and insights may be left out: an
\* optional argument is [some, v], v being the empty value when it is left out
answerQuestion(query, dims, optEda, optKpis, ch, optInsights) ==
    LET
        \* an exception thrown out of the call
        Raised(error, at) == [kind |-> "raised", error |-> error, at |-> at]
        \* a nullable number as the fraction fmtNum takes
        AsFraction(x) == [ok |-> x.ok, num |-> x.n, den |-> 1]
        Halved(x) == [ok |-> x.ok, num |-> x.n, den |-> 2]
        Unresolved(kind, raw) == [kind |-> kind, raw |-> raw]
        \* the text after the leading word of a trimmed question
        AfterWord(u, word) == trim(SubSeq(u, Len(word) + 1, Len(u)))
        \* the most common value of a categorical profile
        TopValueOf(info) == IF Len(info.topValues) > 0 THEN info.topValues[1].value ELSE EmDash
        \* the least i with p at position i of s, or 0
        IndexOf(s, p) ==
            LET I == {i \in 1..(Len(s) - Len(p) + 1) : SubSeq(s, i, i + Len(p) - 1) = p}
            IN IF I = {} THEN 0 ELSE SetMin(I)
        \* s.replace(p, "") for a literal p: the first occurrence only
        RemoveFirst(s, p) ==
            LET i == IndexOf(s, p)
            IN IF i = 0 THEN s ELSE SubSeq(s, 1, i - 1) \o SubSeq(s, i + Len(p), Len(s))
        \* the explain-column answer (ask.ts 210-233)
        ExplainColumn(col, info) ==
            IF info.type = "numeric"
              THEN [kind |-> "explain-numeric", column |-> col,
                    uniqueCount |-> info.uniqueCount, missing |-> info.missing,
                    min |-> fmtNum(AsFraction(info.min)), max |-> fmtNum(AsFraction(info.max)),
                    mean |-> fmtNum(info.mean), median |-> fmtNum(Halved(info.median2))]
            ELSE IF info.type = "categorical"
              THEN [kind |-> "explain-categorical", column |-> col,
                    uniqueCount |-> info.uniqueCount, missing |-> info.missing,
                    top |-> TopValueOf(info), pct |-> fmtPct(info.topValues)]
            ELSE IF info.type = "date"
              THEN [kind |-> "explain-date", column |-> col, min |-> info.dmin,
                    max |-> info.dmax, uniqueCount |-> info.uniqueCount]
            ELSE [kind |-> "explain-unsupported", column |-> col, type |-> info.type]
        ExplainResolved(raw, col, e) ==
            IF ~col.ok THEN Unresolved("explain-unresolved", raw)
            ELSE ExplainColumn(col.col, e.columns[col.col])
        ExplainRaw(raw, e) == ExplainResolved(raw, resolveColumn(raw, e), e)
        Explain(q, e) == ExplainRaw(AfterWord(q, "explain"), e)
        \* the distribution answer (ask.ts 238-262)
        DistributionColumn(col, info) ==
            IF info.type = "numeric"
              THEN [kind |-> "distribution-numeric", column |-> col,
                    min |-> fmtNum(AsFraction(info.min)), max |-> fmtNum(AsFraction(info.max)),
                    mean |-> fmtNum(info.mean), median |-> fmtNum(Halved(info.median2)),
                    variation |-> IF info.stdev2.ok /\ info.stdev2.num > 0
                                    THEN "noticeable variation" ELSE "low variation"]
            ELSE IF info.type = "categorical"
              THEN [kind |-> "distribution-categorical", column |-> col,
                    uniqueCount |-> info.uniqueCount,
                    top |-> TopValueOf(info), pct |-> fmtPct(info.topValues)]
            ELSE [kind |-> "distribution-unsuitable", column |-> col]
        DistributionResolved(raw, col, e) ==
            IF ~col.ok THEN Unresolved("distribution-unresolved", raw)
            ELSE DistributionColumn(col.col, e.columns[col.col])
        DistributionRaw(raw, e) == DistributionResolved(raw, resolveColumn(raw, e), e)
        Distribution(q, e) ==
            DistributionRaw(trim(RemoveFirst(RemoveFirst(RemoveFirst(q, "distribution of"), "dist of"),
                                             "distribution")), e)
        \* the top-values answer (ask.ts 267-279)
        Listed(listed) == [i \in 1..Len(listed) |-> <<listed[i].value, fmtPct(<<listed[i]>>)>>]
        TopValuesColumn(col, info) ==
            IF Len(info.topValues) = 0 THEN [kind |-> "top-undetermined", column |-> col]
            ELSE [kind |-> "top", column |-> col,
                  values |-> Listed(Take(info.topValues, MaxTopValuesListed))]
        TopValuesResolved(raw, col, e) ==
            IF ~col.ok THEN Unresolved("top-unresolved", raw)
            ELSE TopValuesColumn(col.col, e.columns[col.col])
        TopValuesRaw(raw, e) == TopValuesResolved(raw, resolveColumn(raw, e), e)
        TopValuesAnswer(q, e) == TopValuesRaw(AfterWord(q, "top"), e)
        TimeAnswer(q, e) == TimeOfDates(q, e, firstDateColumn(e))
        \* the bulleted texts of a list of insights
        Bullets(ins) == [kind |-> "bullets", texts |-> [i \in 1..Len(ins) |-> ins[i].text]]
        \* the tests of the chain of ifs (ask.ts 167-338), in its order
        IntentTests(q) ==
            << isSummary(q), isWhatStandsOut(q), isMainMetric(q), isOutliers(q), isSkew(q),
               isExplain(q), isDistribution(q), isTop(q), isTime(q), isKpiGap(q),
               isNextSteps(q), isNotAnswerable(q), isDataImprove(q), isExec(q) >>
        \* the return statement of the branch taken (0: none was, ask.ts 345)
        AnswerOfBranch(branch, queryLower, meta, e, mainNumeric, outlierInsights, ins) ==
            IF branch = 1
              THEN [kind |-> "summary", rows |-> meta.rows, columns |-> meta.columns,
                    numeric |-> Len(ColumnsOfType(e, "numeric")),
                    categorical |-> Len(ColumnsOfType(e, "categorical")),
                    time |-> \E i \in 1..Len(e.order) : e.columns[e.order[i]].type = "date",
                    main |-> IF Len(mainNumeric) > 0 THEN mainNumeric[1].column ELSE ""]
            ELSE IF branch = 2
              THEN IF Len(ins) = 0
                     THEN Fixed("nothing-stands-out",
                                "No strong anomalies or dominant patterns were detected.")
                     ELSE Bullets(ins)
            ELSE IF branch = 3
              THEN IF Len(mainNumeric) > 0
                     THEN [kind |-> "main-metric", column |-> mainNumeric[1].column]
                     ELSE Fixed("no-main-metric",
                                "No clear primary metric could be identified without additional context.")
            ELSE IF branch = 4
              THEN IF Len(outlierInsights) = 0
                     THEN Fixed("no-outliers",
                                "No significant outliers were detected based on basic statistical thresholds.")
                     ELSE Bullets(outlierInsights)
            ELSE IF branch = 5
              THEN IF Len(outlierInsights) > 0
                     THEN Fixed("skewed", "The main numeric columns appear skewed due to extreme values. Median-based analysis is recommended.")
                     ELSE Fixed("not-skewed", "The numeric distributions do not appear heavily skewed; mean-based summaries should be generally fine.")
            ELSE IF branch = 6 THEN Explain(queryLower, e)
            ELSE IF branch = 7 THEN Distribution(queryLower, e)
            ELSE IF branch = 8 THEN TopValuesAnswer(queryLower, e)
            ELSE IF branch = 9 THEN TimeAnswer(queryLower, e)
            ELSE IF branch = 10 THEN Fixed("kpi-gaps", "Potential KPI gaps for a decision-ready dashboard include: ...")
            ELSE IF branch = 11 THEN Fixed("next-steps", "Recommended next steps: ...")
            ELSE IF branch = 12 THEN Fixed("limitations", "This dataset can describe what happened ...")
            ELSE IF branch = 13 THEN Fixed("data-to-add", "To improve decision-making, add: ...")
            ELSE IF branch = 14 THEN Fixed("executive", "Key considerations based on this dataset: ...")
            ELSE Fixed("fallback", "Based on the dataset structure and available statistics: ...")
        \* the body of answerQuestion (ask.ts 167-345) over the lowercased question
        AnswerLower(queryLower, meta, e, mainNumeric, outlierInsights, ins) ==
            AnswerOfBranch(FirstTaken(IntentTests(queryLower)), queryLower, meta, e,
                           mainNumeric, outlierInsights, ins)
    IN
    \* columns = eda?.columns ?? {}; mainNumericFromKpis(kpis) calls kpis.find;
    \* (insights ?? [])
    IF ~optKpis.some THEN Raised("TypeError", "kpis.find")
    ELSE AnswerLower(toLowerCase(trim(query)), dims, optEda.v, mainNumericFromKpis(optKpis.v),
                     SelectSeq(optInsights.v, LAMBDA i : i.severity = "warning"), optInsights.v)

(***************************************************************************)
(* The row sets the pipeline is run on                                     *)
(***************************************************************************)
\* the rows of the larger row sets, of the smaller ones, the rows that repeat
\* an earlier row, and the rows that lack a value
SalesRows == 40
SmallRows == 20
RepeatedRows == 2
GapRows == 4

\* "YYYY-MM-DD" for the k-th day (k >= 0) of a calendar of 28-day months
DayText(k) == "2024-" \o Pad2(((k \div 28) % 12) + 1) \o "-" \o Pad2((k % 28) + 1)

RowSet(name, cols, rows) == [name |-> name, cols |-> cols, rows |-> rows]

Empty == RowSet("empty", <<>>, <<>>)

\* Scenario A: amount holds 1..99 and one 10000, which is the p-th row
ScenarioA(p) ==
    RowSet("scenario-a", <<"amount">>,
           [i \in 1..100 |-> [amount |-> Num(IF i = p THEN 10000 ELSE IF i < p THEN i ELSE i - 1)]])

\* Scenario A with the values as text, in no order, beside a second column
ScenarioAText ==
    RowSet("scenario-a", <<"amount", "region">>,
           [i \in 1..100 |->
              [amount |-> Str(LET v == ((i * 37) % 100) + 1
                              IN IF v = 100 THEN "10000" ELSE ToString(v)),
               region |-> Str(IF i % 3 = 0 THEN "north" ELSE "south")]])

\* Scenario B: order_id holds 1..N, alone
ScenarioBOnly ==
    RowSet("scenario-b", <<"order_id">>, [i \in 1..SalesRows |-> [order_id |-> Num(i)]])

\* Scenario B: order_id holds 1..N, beside a measure, a category and a day
ScenarioBSales ==
    RowSet("scenario-b", <<"order_id", "amount", "country", "day">>,
           [i \in 1..SalesRows |->
              [order_id |-> Num(i),
               amount |-> Num(13 + ((i * 7) % 17)),
               country |-> Str(IF i % 4 = 0 THEN "UK" ELSE "US"),
               day |-> Str(DayText(i % SmallRows))]])

\* a column of years, some of them written with a month
Years ==
    RowSet("years", <<"yr", "grp">>,
           [i \in 1..SmallRows |->
              [yr |-> Str(IF i <= RepeatedRows THEN "2020-01" ELSE "2020"),
               grp |-> Str(IF i % 2 = 0 THEN "a" ELSE "b")]])

\* four measures, two categories and a day, every cell present
MatrixFull ==
    RowSet("matrix", <<"a", "b", "c", "d", "country", "segment", "day">>,
           [i \in 1..SalesRows |->
              [a |-> Num(13 + (i % 7)), b |-> Num(13 + ((i * 3) % 5)),
               c |-> Num(20 - (i % 7)), d |-> Num(13 + ((i * i) % 6)),
               country |-> Str(IF i % 4 = 0 THEN "UK" ELSE "US"),
               segment |-> Str(IF i % 3 = 0 THEN "smb" ELSE IF i % 3 = 1 THEN "mid" ELSE "ent"),
               day |-> Str(DayText(i % SmallRows))]])

\* four measures; the last rows lack a, and d varies only on those rows
MatrixGap ==
    RowSet("matrix-gap", <<"a", "b", "c", "d">>,
           [i \in 1..(SalesRows + GapRows) |->
              [a |-> IF i > SalesRows THEN Null ELSE Num(13 + (i % 7)),
               b |-> Num(13 + ((i * 3) % 5)),
               c |-> Num(20 - (i % 7)),
               d |-> Num(IF i > SalesRows THEN 17 ELSE 15)]])

\* two measures whose names share a normalized key, both with one extreme
\* value; an empty and a constant column; the last rows repeat the first
Ledger ==
    RowSet("ledger", <<"amt", "a_mt", "country", "day", "blank", "same">>,
           [i \in 1..SalesRows |->
              LET j == IF i > SalesRows - RepeatedRows THEN i - (SalesRows - RepeatedRows) ELSE i
              IN [amt |-> Num(IF j = 5 THEN 95 ELSE 20),
                  a_mt |-> IF j % 4 = 3 THEN Null ELSE Num(IF j = 6 THEN 95 ELSE 20),
                  country |-> Str(IF j % 5 = 0 THEN "UK" ELSE "US"),
                  day |-> Str(DayText(j % SmallRows)),
                  blank |-> Null,
                  same |-> Str("x")]])

\* two measures and a category, too few rows for a scatter plot
Survey ==
    RowSet("survey", <<"score", "age", "team">>,
           [i \in 1..SmallRows |->
              [score |-> Num(13 + (i % 6)), age |-> Num(20 + ((i * 3) % 11)),
               team |-> Str(IF i % 2 = 0 THEN "red" ELSE "blue")]])

\* a measure whose last rows hold a remark instead of a number
Readings ==
    RowSet("readings", <<"reading", "site">>,
           [i \in 1..SmallRows |->
              [reading |-> IF i <= SmallRows - RepeatedRows THEN Num(12 + i)
                           ELSE Str(IF i = SmallRows THEN "n/a" ELSE "tbd"),
               site |-> Str(IF i % 2 = 0 THEN "east" ELSE "west")]])

\* three measures and a category: a and b stay at one value in most rows and
\* leave it, either way, in the others
Trio ==
    RowSet("trio", <<"a", "b", "c", "grp">>,
           [i \in 1..SalesRows |->
              [a |-> Num(IF i % 5 = 0 THEN 13 ELSE IF i % 5 = 1 THEN 27 ELSE 20),
               b |-> Num(IF i % 5 = 2 THEN 11 ELSE IF i % 5 = 3 THEN 31 ELSE 21),
               c |-> Num(13 + (i % 7)),
               grp |-> Str(IF i % 3 = 0 THEN "x" ELSE "y")]])

\* a measure that holds one value in every row, beside a category
Flat ==
    RowSet("flat", <<"qty", "grp">>,
           [i \in 1..SalesRows |->
              [qty |-> Num(15), grp |-> Str(IF i % 3 = 0 THEN "x" ELSE "y")]])

\* a balance that is below zero in most rows and above it in the others,
\* beside a category
Refunds ==
    RowSet("refunds", <<"balance", "grp">>,
           [i \in 1..SalesRows |->
              [balance |-> Num(IF i % 4 = 0 THEN 15 + (i % 3) ELSE -20 - (i % 5)),
               grp |-> Str(IF i % 3 = 0 THEN "x" ELSE "y")]])

\* Scenario C: country holds "US" in 80% of 500 rows
ScenarioC ==
    RowSet("scenario-c", <<"country">>,
           [i \in 1..500 |-> [country |-> Str(IF i % 5 = 0 THEN "UK" ELSE "US")]])

\* two concentrated categories: the second has the larger share and one more
\* value
Segments ==
    RowSet("segments", <<"region", "plan", "spend">>,
           [i \in 1..SalesRows |->
              [region |-> Str(IF i % 4 = 0 THEN "south" ELSE "north"),
               plan |-> Str(IF i % 10 = 0 THEN (IF i % 20 = 0 THEN "gold" ELSE "plus") ELSE "free"),
               spend |-> Num(13 + ((i * 7) % 17))]])

\* the towns of the shops
Towns == 10

\* a measure and a category of more values than a bar chart shows
Shops ==
    RowSet("shops", <<"town", "takings">>,
           [i \in 1..SalesRows |->
              [town |-> Str("t" \o ToString(i % Towns)),
               takings |-> Num(13 + ((i * 7) % 17))]])

\* a column of years, read as numbers and most of them as dates, and a category
Vintages ==
    RowSet("vintages", <<"yr", "cellar">>,
           [i \in 1..SalesRows |->
              [yr |-> Str(IF i % 5 = 0 THEN "15" ELSE ToString(1001 + (i % 10))),
               cellar |-> Str(IF i % 3 = 0 THEN "north" ELSE "south")]])

\* a day and an amount, every amount different
Receipts ==
    RowSet("receipts", <<"day", "amount">>,
           [i \in 1..SalesRows |-> [day |-> Str(DayText(i)), amount |-> Num(i * i + 3)]])

\* a handful of rows
Tiny ==
    RowSet("tiny", <<"item", "price">>,
           [i \in 1..RepeatedRows |-> [item |-> Str("pen"), price |-> Num(13 + i)]])

RowSets ==
    {Empty, ScenarioA(1), ScenarioA(50), ScenarioA(100), ScenarioAText, ScenarioBOnly,
     ScenarioBSales, Years, MatrixFull, MatrixGap, Ledger, Survey, Readings, Trio,
     Flat, Refunds, ScenarioC, Segments, Shops, Vintages, Receipts, Tiny}

(***************************************************************************)
(* The pipeline: a row set is profiled, then KPIs, charts and insights are *)
(* derived from it, in the order the dataset context and the dashboard     *)
(* call the stages                                                         *)
(***************************************************************************)
\* a clearing that leaves the summary in place
ClearedRowsOnly ==
    [data |-> [some |-> FALSE, v |-> Empty],
     meta |-> [some |-> TRUE, v |-> [rows |-> 0, columns |-> 0, missingValues |-> 0]],
     eda |-> NoEDA, kpis |-> <<>>, charts |-> <<>>]

\* clearDataset() of the dataset context: the state it sets.  data and meta
\* are [some, v], null being some = FALSE (a row set is kept with the order of
\* its keys)
clearDataset ==
    [data |-> [some |-> FALSE, v |-> Empty],
     meta |-> [some |-> FALSE, v |-> [rows |-> 0, columns |-> 0, missingValues |-> 0]],
     eda |-> NoEDA, kpis |-> <<>>, charts |-> <<>>]

Engines == {"iso", "legacy"}

NoAnswer == [kind |-> "none"]

Init ==
    /\ engine \in Engines
    /\ data \in RowSets
    /\ eda = NoEDA
    /\ kpis = <<>>
    /\ pool = <<>>
    /\ charts = <<>>
    /\ insights = <<>>
    /\ pc = "loaded"
    /\ boxIn = <<>>
    /\ boxOut = NoBox
    /\ question = ""
    /\ answer = NoAnswer
    /\ context = clearDataset
    /\ calls = <<>>
    /\ passed = OptionalArgs
    /\ chosenCharts = <<>>
    /\ numText = ""
    /\ numRead = NoParse

\* const eda = runEDA(data)
RunEDA ==
    /\ pc = "loaded"
    /\ eda' = SomeEDA(runEDA(data, engine))
    /\ pc' = "profiled"
    /\ UNCHANGED <<engine, data, kpis, pool, charts, insights, boxIn, boxOut, question, answer, passed, context, calls, chosenCharts, numText, numRead>>

\* generateKPIs(rows, eda) of the dataset context and of the dashboard, or
\* generateKPIs(data) of the upload page
GenerateKPIs ==
    /\ pc = "profiled"
    /\ \E withProfile \in BOOLEAN :
          kpis' = generateKPIs(data, IF withProfile THEN eda ELSE NoEDA)
    /\ pc' = "kpis"
    /\ UNCHANGED <<engine, data, eda, pool, charts, insights, boxIn, boxOut, question, answer, passed, context, calls, chosenCharts, numText, numRead>>

\* generateCharts(rows, eda); pool records the candidates it hands to
\* pickDiverse
GenerateCharts ==
    /\ pc = "kpis"
    /\ pool' = ChartCandidates(data, eda.v, engine)
    /\ charts' = generateCharts(data, eda.v, engine)
    /\ pc' = "charts"
    /\ UNCHANGED <<engine, data, eda, kpis, insights, boxIn, boxOut, question, answer, passed, context, calls, chosenCharts, numText, numRead>>

\* generateInsights(eda, kpis) of the dashboard
GenerateInsights ==
    /\ pc = "charts"
    /\ insights' = generateInsights(eda.v, kpis)
    /\ pc' = "insights"
    /\ UNCHANGED <<engine, data, eda, kpis, pool, charts, boxIn, boxOut, question, answer, passed, context, calls, chosenCharts, numText, numRead>>

Next == RunEDA \/ GenerateKPIs \/ GenerateCharts \/ GenerateInsights

Spec == Init /\ [][Next]_vars

(***************************************************************************)
(* The numeric parsers over strings: a numeral with or without commas and  *)
(* a point, written with a sign, a currency sign, a percent sign or        *)
(* parentheses                                                             *)
(***************************************************************************)
Numerals ==
    {"1234", "1,234", "12,345", "1,000", "1,234,567", "1234,56", "1,5", "0,25", "1,23",
     "1,2345", "12,34,567", "1,234.56", "1,234,567.5", "1.5", "1.234,56", ",5", "5,",
     "1,a", "abc"}

TextParts ==
    [paren : BOOLEAN, sign : {"", "-"}, currency : {"", "$", "$ "}, numeral : Numerals,
     percent : BOOLEAN]

TextOf(p) ==
    (IF p.paren THEN "(" ELSE "") \o p.sign \o p.currency \o p.numeral
        \o (IF p.percent THEN "%" ELSE "") \o (IF p.paren THEN ")" ELSE "")

InitParse ==
    /\ numText \in {TextOf(p) : p \in TextParts}
    /\ numRead = NoParse
    /\ pc = "text"
    /\ engine = "iso"
    /\ data = Empty
    /\ eda = NoEDA
    /\ kpis = <<>>
    /\ pool = <<>>
    /\ charts = <<>>
    /\ insights = <<>>
    /\ boxIn = <<>>
    /\ boxOut = NoBox
    /\ question = ""
    /\ answer = NoAnswer
    /\ context = clearDataset
    /\ calls = <<>>
    /\ passed = OptionalArgs
    /\ chosenCharts = <<>>

\* safeToNumberLoose(s) and looksNumeric(s) of one string
Parse ==
    /\ pc = "text"
    /\ numRead' = [literal |-> NumberLiteral(numText), looks |-> looksNumeric(numText)]
    /\ pc' = "parsed"
    /\ UNCHANGED <<engine, data, eda, kpis, pool, charts, insights, boxIn, boxOut, question,
                   answer, passed, context, calls, chosenCharts, numText>>

SpecParse == InitParse /\ [][Parse]_vars

(***************************************************************************)
(* The profile engine over columns made for the type decision: runEDA is   *)
(* handed a row set of one column                                          *)
(***************************************************************************)
MixRows == 20

\* a column v of MixRows cells: "2020" (a number and a date) in the first
\* `both` rows, then "15" (a number only) in `num` rows, then "2020-01-05" (a
\* date only) in `date` rows, and "n/a" in the others
Mixed(both, num, date) ==
    RowSet("mixed", <<"v">>,
           [i \in 1..MixRows |->
              [v |-> Str(IF i <= both THEN "2020"
                         ELSE IF i <= both + num THEN "15"
                         ELSE IF i <= both + num + date THEN "2020-01-05"
                         ELSE "n/a")]])

MixedSets ==
    {Mixed(t[1], t[2], t[3]) :
       t \in {u \in (0..MixRows) \X (0..MixRows) \X (0..MixRows) : u[1] + u[2] + u[3] <= MixRows}}

\* a column v made for the identifier heuristic: row i holds a value of its own,
\* a long token in the first `long` rows, then a short token in `short` rows, a
\* number in `num` rows, a day in `date` rows and a remark (two words, long when
\* wide) in the others; the last `repeats` rows repeat the first row
IdRows == 20
IdCounts == {0, 3, 12, 13, 17}
MaxRepeats == 2

IdValue(i, long, short, num, date, wide) ==
    IF i <= long THEN "order-2024-batch-000000000000" \o Pad2(i)
    ELSE IF i <= long + short THEN "k" \o Pad2(i)
    ELSE IF i <= long + short + num THEN ToString(100 + i)
    ELSE IF i <= long + short + num + date THEN DayText(i)
    ELSE IF wide THEN "a remark about the row number " \o Pad2(i)
    ELSE "r " \o Pad2(i)

IdColumn(rows, long, short, num, date, wide, repeats) ==
    RowSet("tokens", <<"v">>,
           [i \in 1..rows |->
              [v |-> Str(IdValue(IF i > rows - repeats THEN 1 ELSE i,
                                 long, short, num, date, wide))]])

IdSets ==
    {IdColumn(t[1], t[2], t[3], t[4], t[5], t[6], t[7]) :
       t \in {u \in ((IdRows - 1)..IdRows) \X IdCounts \X IdCounts \X IdCounts \X IdCounts
                      \X BOOLEAN \X (0..MaxRepeats) :
                 u[2] + u[3] + u[4] + u[5] <= u[1]}}

\* Rows of two columns that are written alike although their values differ:
\* a text holding the separator of the fingerprint, and a number and the text
\* of its digits
TwinRows == 3

TwinRow ==
    { [a |-> Str("x||"), b |-> Null], [a |-> Str("x"), b |-> Str("||")],
      [a |-> Num(12), b |-> Str("n")], [a |-> Str("12"), b |-> Str("n")],
      [a |-> Str("x"), b |-> Null] }

TwinSets ==
    {[rows |-> rs, cols |-> <<"a", "b">>, name |-> "twins"] : rs \in [1..TwinRows -> TwinRow]}

ProfileRowSets == MixedSets \cup IdSets \cup TwinSets

InitProfile ==
    /\ engine \in Engines
    /\ data \in ProfileRowSets
    /\ eda = NoEDA
    /\ kpis = <<>>
    /\ pool = <<>>
    /\ charts = <<>>
    /\ insights = <<>>
    /\ pc = "loaded"
    /\ boxIn = <<>>
    /\ boxOut = NoBox
    /\ question = ""
    /\ answer = NoAnswer
    /\ context = clearDataset
    /\ calls = <<>>
    /\ passed = OptionalArgs
    /\ chosenCharts = <<>>
    /\ numText = ""
    /\ numRead = NoParse

SpecProfile == InitProfile /\ [][RunEDA]_vars

(***************************************************************************)
(* The dashboard's chart selection (dashboard/page.tsx 127-244)            *)
(***************************************************************************)

MinIdUniques == 20
MinShown == 4
MaxShown == 8

\* isIdLikeColumn of the dashboard (page.tsx 127-154); hasDataset holds
isIdLikeColumnOfPage(col, e) ==
    LET
        LowerNameHint(n) ==
            \/ n = "id" \/ endsWith(n, "_id") \/ endsWith(n, " id")
            \/ includes(n, "uuid") \/ includes(n, "guid") \/ includes(n, "hash")
            \/ includes(n, "token") \/ endsWith(n, "key") \/ startsWith(n, "key")
            \/ includes(n, "identifier")
        \* the tests on eda.columns[c]
        InfoIsId(info) ==
            \/ info.inferredAs = "id"
            \/ /\ info.nonMissingCount /= 0
               /\ info.uniqueCount >= MinIdUniques
               /\ info.uniqueCount * 100 > 98 * MaxOf(1, info.nonMissingCount)
    IN
    \/ LowerNameHint(trim(toLowerCase(col)))
    \/ (col \in DOMAIN e.columns /\ InfoIsId(e.columns[col]))

\* chartUsesId (page.tsx 156-183); no chart of generateCharts has a dateColumn
\* or a valueColumn
chartUsesId(ch, e) ==
    \/ isIdLikeColumnOfPage(ch.column, e)
    \/ ("xColumn" \in DOMAIN ch /\ isIdLikeColumnOfPage(ch.xColumn, e))
    \/ ("yColumn" \in DOMAIN ch /\ isIdLikeColumnOfPage(ch.yColumn, e))
    \/ ("columns" \in DOMAIN ch /\ \E i \in 1..Len(ch.columns) : isIdLikeColumnOfPage(ch.columns[i], e))

\* keyOf (page.tsx 206-209)
keyOf(c) ==
    c.type \o "::" \o c.column
        \o "::" \o (IF "xColumn" \in DOMAIN c THEN c.xColumn ELSE "")
        \o "::" \o (IF "yColumn" \in DOMAIN c THEN c.yColumn ELSE "")

\* push (page.tsx 211-218) on the list picked so far
push(pick, c) ==
    IF \E k \in 1..Len(pick) : keyOf(pick[k]) = keyOf(c) THEN pick ELSE Append(pick, c)

\* for (const c of cs) { if (pick.length >= limit) break; push(c); }
RECURSIVE PushUpTo(_, _, _)
PushUpTo(pick, cs, limit) ==
    IF Len(cs) = 0 \/ Len(pick) >= limit THEN pick
    ELSE PushUpTo(push(pick, cs[1]), Tail(cs), limit)

\* push(c) for every c of cs
PushAll(pick, cs) == PushUpTo(pick, cs, Len(pick) + Len(cs))

\* the body of chosenCharts after the recomputation (page.tsx 195-243)
CuratedCharts(all, e) ==
    LET
        \* byType(t)[0] ?? byType(u)[0], as a list of one chart or none
        FirstOfTypes(clean, t, u) ==
            Take(SelectSeq(clean, LAMBDA c : c.type = t) \o SelectSeq(clean, LAMBDA c : c.type = u), 1)
        \* the balanced set; push(undefined) pushes nothing
        Preferred(clean) ==
            FirstOfTypes(clean, "time", "time") \o FirstOfTypes(clean, "scatter", "corr")
                \o FirstOfTypes(clean, "histogram", "box") \o FirstOfTypes(clean, "bar", "bar")
        \* the fill to 8 and then the guarantee of 4
        Filled(clean, pick) ==
            IF Len(pick) < MinShown THEN PushUpTo(pick, clean, MinShown) ELSE pick
        Returned(clean, pick) ==
            IF Len(pick) > 0 THEN Take(pick, MaxShown)
            ELSE IF Len(clean) > 0 THEN Take(clean, MaxShown) ELSE Take(all, MaxShown)
        Curated(clean) ==
            Returned(clean,
                     Filled(clean,
                            PushUpTo(PushAll(<<>>, Preferred(clean)), clean, MaxShown)))
    IN
    Curated(SelectSeq(all, LAMBDA c : ~chartUsesId(c, e)))

\* the memo chosenCharts of the dashboard over the data set and profile of the
\* context (page.tsx 191-244)
ChooseCharts ==
    /\ pc = "profiled"
    /\ chosenCharts' = CuratedCharts(generateCharts(data, eda.v, engine), eda.v)
    /\ pc' = "dashboard"
    /\ UNCHANGED <<engine, data, eda, kpis, pool, charts, insights, boxIn, boxOut, question, answer, passed, context, calls, numText, numRead>>

SpecDashboard == Init /\ [][RunEDA \/ ChooseCharts]_vars

(***************************************************************************)
(* The stages over one profile, in any order: the KPI selector, the chart  *)
(* generator and the insight generator are handed the same rows and the    *)
(* same profile object, and the insight generator the KPI list.  Arrays    *)
(* and objects are held by reference, so a stage that wrote to one it was  *)
(* handed would change it for the others: each action gives the profile    *)
(* as the stage leaves it.                                                 *)
(***************************************************************************)
\* a reference to the array a method is called on, as an in-place method
\* returns it
SameArrayRef(from, fresh) == from

\* the reference topValues.slice(0, maxBars).map(...) evaluates to: that of a
\* new array (fresh), never that of the array it is called on (from)
SliceMapRef(from, fresh) == fresh

\* generateKPIs(data, eda): its push and sort calls are on arrays it makes
\* (kpis, nums, Object.entries(...).filter(...).map(...))
StageKPIs ==
    /\ pc = "profiled"
    /\ "generateKPIs" \notin Range(calls)
    /\ kpis' = generateKPIs(data, eda)
    /\ calls' = Append(calls, "generateKPIs")
    /\ UNCHANGED <<engine, data, eda, pool, charts, insights, pc, boxIn, boxOut, question,
                   answer, passed, context, chosenCharts, numText, numRead>>

\* generateCharts(data, eda): its push and sort calls are on arrays it makes,
\* and in capTopValuesWithOther on trimmed, which is made from info.topValues
StageCharts ==
    LET
        \* info.topValues after trimmed.push({ label: "Other", count: other })
        TopValuesAfterPush(info, trimmed, other) ==
            IF trimmed = "topValues" /\ other > 0
              THEN Append(info.topValues, [label |-> "Other", count |-> other])
              ELSE info.topValues
        \* info.topValues after capTopValuesWithOther(info, maxBars)
        TopValuesAfterCap(info, maxBars) ==
            TopValuesAfterPush(info, SliceMapRef("topValues", "trimmed"),
                MaxOf(0, info.nonMissingCount
                           - SumSeq([i \in 1..MinOf(maxBars, Len(info.topValues)) |->
                                       info.topValues[i].count])))
        \* the columns capTopValuesWithOther is called on: those of the bar
        \* candidates built from top values
        Capped(result, candidates) ==
            {c \in Range(result.order) :
               /\ Len(result.columns[c].topValues) > 0
               /\ \E i \in 1..Len(candidates) :
                     candidates[i].spec.type = "bar" /\ candidates[i].spec.column = c}
        ProfileAfter(result, capped) ==
            [result EXCEPT !.columns =
               [c \in DOMAIN result.columns |->
                  IF c \in capped
                    THEN [result.columns[c] EXCEPT
                            !.topValues = TopValuesAfterCap(result.columns[c], MaxBars)]
                    ELSE result.columns[c]]]
    IN
    /\ pc = "profiled"
    /\ "generateCharts" \notin Range(calls)
    /\ pool' = ChartCandidates(data, eda.v, engine)
    /\ charts' = generateCharts(data, eda.v, engine)
    /\ eda' = SomeEDA(ProfileAfter(eda.v, Capped(eda.v, pool')))
    /\ calls' = Append(calls, "generateCharts")
    /\ UNCHANGED <<engine, data, kpis, insights, pc, boxIn, boxOut, question, answer, passed,
                   context, chosenCharts, numText, numRead>>

\* generateInsights(eda, kpis), once the KPI list is there: its push and sort
\* calls are on arrays it makes (insights, outlierCandidates,
\* dominanceCandidates, [...insights])
StageInsights ==
    /\ pc = "profiled"
    /\ "generateKPIs" \in Range(calls)
    /\ "generateInsights" \notin Range(calls)
    /\ insights' = generateInsights(eda.v, kpis)
    /\ calls' = Append(calls, "generateInsights")
    /\ UNCHANGED <<engine, data, eda, kpis, pool, charts, pc, boxIn, boxOut, question,
                   answer, passed, context, chosenCharts, numText, numRead>>

SpecStages == Init /\ [][RunEDA \/ StageKPIs \/ StageCharts \/ StageInsights]_vars

(***************************************************************************)
(* computeBox over value lists                                             *)
(***************************************************************************)
\* the values a list holds, and the most copies of one value in a list
BoxValues == <<0, 1, 4, 9>>
MaxCopies == 12

\* k copies of v
Copies(v, k) == [i \in 1..k |-> v]

\* the lists of 11 to 13 values, given by the number of copies of each value,
\* largest value first
BoxLists ==
    {Copies(BoxValues[4], n[4]) \o Copies(BoxValues[3], n[3])
       \o Copies(BoxValues[2], n[2]) \o Copies(BoxValues[1], n[1]) :
       n \in {m \in [1..4 -> 0..MaxCopies] :
                m[1] + m[2] + m[3] + m[4] \in (MinBoxSample - 1)..(MinBoxSample + 1)}}

InitBox ==
    /\ boxIn \in BoxLists
    /\ boxOut = NoBox
    /\ pc = "values"
    /\ engine = "iso"
    /\ data = Empty
    /\ eda = NoEDA
    /\ kpis = <<>>
    /\ pool = <<>>
    /\ charts = <<>>
    /\ insights = <<>>
    /\ question = ""
    /\ answer = NoAnswer
    /\ context = clearDataset
    /\ calls = <<>>
    /\ passed = OptionalArgs
    /\ chosenCharts = <<>>
    /\ numText = ""
    /\ numRead = NoParse

ComputeBox ==
    /\ pc = "values"
    /\ boxOut' = computeBox(boxIn)
    /\ pc' = "box"
    /\ UNCHANGED <<engine, data, eda, kpis, pool, charts, insights, boxIn, question, answer, passed, context, calls, chosenCharts, numText, numRead>>

SpecBox == InitBox /\ [][ComputeBox]_vars

(***************************************************************************)
(* pickDiverse over candidate lists                                        *)
(***************************************************************************)
\* the most candidates of a list
MaxPool == 5

\* the types and purposes of the candidates: each type with the purpose
\* generateCharts gives it, and the histogram with a second one
PoolKinds ==
    {<<"histogram", "distribution">>, <<"histogram", "composition">>,
     <<"bar", "composition">>, <<"time", "trend">>, <<"box", "distribution">>,
     <<"scatter", "relationship">>, <<"corr", "relationship">>}

\* the candidate list of a list of kinds: the scores are out of order and
\* repeat (2, 1, 0, 2, 1, ...), the columns tell the specs apart
PoolOf(kinds) ==
    [i \in 1..Len(kinds) |->
       Candidate([type |-> kinds[i][1], column |-> "c" \o ToString(i), purpose |-> kinds[i][2]],
                 (2 * i) % 3, kinds[i][2])]

InitPick ==
    /\ pool \in {PoolOf(kinds) : kinds \in UNION {[1..n -> PoolKinds] : n \in 0..MaxPool}}
    /\ charts = <<>>
    /\ pc = "pool"
    /\ engine = "iso"
    /\ data = Empty
    /\ eda = NoEDA
    /\ kpis = <<>>
    /\ insights = <<>>
    /\ boxIn = <<>>
    /\ boxOut = NoBox
    /\ question = ""
    /\ answer = NoAnswer
    /\ context = clearDataset
    /\ calls = <<>>
    /\ passed = OptionalArgs
    /\ chosenCharts = <<>>
    /\ numText = ""
    /\ numRead = NoParse

PickDiverse ==
    /\ pc = "pool"
    /\ charts' = pickDiverse(pool, MinCharts, MaxCharts)
    /\ pc' = "charts"
    /\ UNCHANGED <<engine, data, eda, kpis, pool, insights, boxIn, boxOut, question, answer,
                   passed, context, calls, chosenCharts, numText, numRead>>

SpecPick == InitPick /\ [][PickDiverse]_vars

(***************************************************************************)
(* answerQuestion over small data sets: the dashboard hands it the         *)
(* question typed, the profile of the rows and the KPIs, charts and        *)
(* insights it shows                                                       *)
(***************************************************************************)
\* the rows of a data set asked about, and the most columns it has
AskRows == 3
MaxAskColumns == 3

AskNames == {"amount_usd", "amount", "country", "day"}

\* the cell of the i-th row under a column
AskValue(col, i) ==
    IF col = "day" THEN Str(DayText(7 * i))
    ELSE IF col = "country" THEN Str(IF i % 2 = 0 THEN "UK" ELSE "US")
    ELSE IF col = "amount" THEN Num(13 + i * i)
    ELSE Num(100 + 150 * i)

\* the column orders: the sequences of distinct names
AskOrders ==
    UNION {{o \in [1..n -> AskNames] : \A i, j \in 1..n : i /= j => o[i] /= o[j]} :
             n \in 1..MaxAskColumns}

AskData(order) ==
    RowSet("asked", order,
           [i \in 1..AskRows |-> [c \in Range(order) |-> AskValue(c, i)]])

\* the questions: a trigger and a trailing phrase, or a question about time
ColumnTriggers == {"explain ", "  Explain  ", "top ", "distribution of "}
Phrases == {"Amount", "amount usd", "usd", "amount in usd", "price", "Day", "?"}
TimeQuestions ==
    {"time trend", "Time Coverage", "is this data seasonal",
     "what would a time trend reveal here", "summarise the trend", "explain trend"}

Questions == {t \o ph : t \in ColumnTriggers, ph \in Phrases} \cup TimeQuestions

AskedKpis == {<<>>, StoryOf("amount", <<14, 17, 22>>)}
AskedInsights ==
    {<<>>, << Insight("outlier-amount", "warning", "amount", "investigate",
                      <<"outlier", "amount", TRUE>>) >>}
AskedCharts ==
    {<<>>, << [type |-> "bar", column |-> "country", labels |-> <<"US", "UK">>,
               counts |-> <<2, 1>>, maxBars |-> MaxBars, purpose |-> "composition"] >>}

InitAsk ==
    /\ engine \in Engines
    /\ data \in {AskData(o) : o \in AskOrders}
    /\ eda = SomeEDA(runEDA(data, engine))
    /\ question \in Questions
    /\ kpis \in AskedKpis
    /\ insights \in AskedInsights
    /\ charts \in AskedCharts
    /\ pool = <<>>
    /\ pc = "asked"
    /\ boxIn = <<>>
    /\ boxOut = NoBox
    /\ answer = NoAnswer
    /\ context = clearDataset
    /\ calls = <<>>
    /\ passed = OptionalArgs
    /\ chosenCharts = <<>>
    /\ numText = ""
    /\ numRead = NoParse

\* answerQuestion({ q, meta, eda, kpis, charts, insights }) of the dashboard
Answer ==
    /\ pc = "asked"
    /\ answer' = answerQuestion(question,
                                [rows |-> Len(data.rows), columns |-> Len(eda.v.order)],
                                IF "eda" \in passed THEN eda ELSE NoEDA,
                                [some |-> "kpis" \in passed,
                                 v |-> IF "kpis" \in passed THEN kpis ELSE <<>>],
                                charts,
                                [some |-> "insights" \in passed,
                                 v |-> IF "insights" \in passed THEN insights ELSE <<>>])
    /\ pc' = "answered"
    /\ UNCHANGED <<engine, data, eda, kpis, pool, charts, insights, boxIn, boxOut, question, passed, context, calls, chosenCharts, numText, numRead>>

SpecAsk == InitAsk /\ [][Answer]_vars

(***************************************************************************)
(* The dataset context (DatasetContext.tsx): the upload page stores a row  *)
(* set with setDataset, the dashboard drops it with clearDataset           *)
(***************************************************************************)
\* setDataset(d, m, e, k, ch): the state it sets.  e is an optional profile; a
\* missing k or ch is the empty list (safeArray)
setDataset(d, m, e, k, ch, dateEngine) ==
    LET
        Stored(rows, meta, edaSafe) ==
            [data |-> [some |-> TRUE, v |-> rows], meta |-> [some |-> TRUE, v |-> meta],
             eda |-> SomeEDA(edaSafe),
             kpis |-> IF Len(k) > 0 THEN k ELSE generateKPIs(rows, SomeEDA(edaSafe)),
             charts |-> IF Len(ch) > 0 THEN ch ELSE generateCharts(rows, edaSafe, dateEngine)]
    IN
    Stored(d, m, IF e.some THEN e.v ELSE runEDA(d, dateEngine))

\* the most calls made on the context
MaxCalls == 2

\* the files uploaded: small row sets
ContextColumns == 2
Files ==
    {Empty, Tiny} \cup {AskData(o) : o \in {q \in AskOrders : Len(q) <= ContextColumns}}

\* the META block of onFileChange: the columns are the keys of the first row
MetaOf(file) ==
    LET
        Counted(columns) ==
            [rows |-> Len(file.rows), columns |-> Len(columns),
             missingValues |-> Cardinality({<<i, c>> \in (1..Len(file.rows)) \X Range(columns) :
                                               isMissing(Cell(file.rows[i], c))})]
    IN
    Counted(IF Len(file.rows) = 0 THEN <<>> ELSE file.cols)

InitContext ==
    /\ engine \in Engines
    /\ context = [data |-> [some |-> FALSE, v |-> Empty],
                  meta |-> [some |-> FALSE,
                            v |-> [rows |-> 0, columns |-> 0, missingValues |-> 0]],
                  eda |-> NoEDA, kpis |-> <<>>, charts |-> <<>>]
    /\ calls = <<>>
    /\ data = Empty
    /\ eda = NoEDA
    /\ kpis = <<>>
    /\ pool = <<>>
    /\ charts = <<>>
    /\ insights = <<>>
    /\ pc = "context"
    /\ boxIn = <<>>
    /\ boxOut = NoBox
    /\ question = ""
    /\ answer = NoAnswer
    /\ passed = OptionalArgs
    /\ chosenCharts = <<>>
    /\ numText = ""
    /\ numRead = NoParse

\* onFileChange of the upload page, after the file is parsed: the ENGINE block
\* and the call of setDataset
OnFileChange ==
    /\ Len(calls) < MaxCalls
    /\ \E file \in Files :
          context' = setDataset(file, MetaOf(file), SomeEDA(runEDA(file, engine)),
                                generateKPIs(file, NoEDA),
                                generateCharts(file, runEDA(file, engine), engine), engine)
    /\ calls' = Append(calls, "onFileChange")
    /\ UNCHANGED <<engine, data, eda, kpis, pool, charts, insights, pc, boxIn, boxOut,
                   question, answer, passed, chosenCharts, numText, numRead>>

\* setDataset(data, meta): the call with only data and meta
SetDataset ==
    /\ Len(calls) < MaxCalls
    /\ \E file \in Files :
          context' = setDataset(file, MetaOf(file), NoEDA, <<>>, <<>>, engine)
    /\ calls' = Append(calls, "setDataset")
    /\ UNCHANGED <<engine, data, eda, kpis, pool, charts, insights, pc, boxIn, boxOut,
                   question, answer, passed, chosenCharts, numText, numRead>>

\* the "New dataset" button of the dashboard
ClearDataset ==
    /\ Len(calls) < MaxCalls
    /\ context' = clearDataset
    /\ calls' = Append(calls, "clearDataset")
    /\ UNCHANGED <<engine, data, eda, kpis, pool, charts, insights, pc, boxIn, boxOut,
                   question, answer, passed, chosenCharts, numText, numRead>>

SpecContext == InitContext /\ [][OnFileChange \/ SetDataset \/ ClearDataset]_vars

(***************************************************************************)
(* The dashboard asked about outliers over the insights of the pipeline    *)
(***************************************************************************)
OutlierQuestions == {"outliers", "Any anomalies?", "show me the outlier rows"}

\* answerQuestion({ q, meta, eda, kpis, charts, insights }) of the dashboard,
\* with the KPIs, charts and insights derived from the rows
AskOutliers ==
    /\ pc = "insights"
    /\ \E q \in OutlierQuestions :
          /\ question' = q
          /\ answer' = answerQuestion(q, [rows |-> Len(data.rows), columns |-> Len(eda.v.order)],
                                      eda, [some |-> TRUE, v |-> kpis], charts,
                                      [some |-> TRUE, v |-> insights])
    /\ pc' = "answered"
    /\ UNCHANGED <<engine, data, eda, kpis, pool, charts, insights, boxIn, boxOut, passed, context, calls, chosenCharts, numText, numRead>>

SpecOutliers == Init /\ [][Next \/ AskOutliers]_vars

(***************************************************************************)
(* answerQuestion called with any of its optional arguments left out, on   *)
(* questions that match one intent, several or none                        *)
(***************************************************************************)
\* one phrase for each test of answerQuestion, in the order of the tests
IntentPhrases ==
    << "summary", "what stands out", "main metric", "outliers", "skew", "explain amount",
       "distribution of country", "top country", "trend", "kpi gaps", "next steps",
       "limitations", "what would you add", "risk" >>

OtherQuestions ==
    {"hello", "  SUMMARY  ", "Top Amount", "top day", "top price", "explain ?",
     "distribution amount", "kpi is missing", "what data would improve this"}

AnyQuestions ==
    {IntentPhrases[i] : i \in 1..Len(IntentPhrases)}
    \cup {IntentPhrases[i] \o " " \o IntentPhrases[j] : i, j \in 1..Len(IntentPhrases)}
    \cup OtherQuestions

AnyOrders == {<<"amount", "country", "day">>, <<"country", "amount">>}

AnyInsights ==
    {<<>>, << Insight("outlier-amount", "warning", "amount", "investigate",
                      <<"outlier", "amount", TRUE>>),
              Insight("dominance-country", "info", "country", "segment",
                      <<"dominance", "country", "US">>) >>}

InitAny ==
    /\ engine = "iso"
    /\ data \in {AskData(o) : o \in AnyOrders}
    /\ eda = SomeEDA(runEDA(data, engine))
    /\ question \in AnyQuestions
    /\ passed \in SUBSET OptionalArgs
    /\ kpis \in AskedKpis
    /\ insights \in AnyInsights
    /\ charts = <<>>
    /\ pool = <<>>
    /\ pc = "asked"
    /\ boxIn = <<>>
    /\ boxOut = NoBox
    /\ answer = NoAnswer
    /\ context = clearDataset
    /\ calls = <<>>
    /\ chosenCharts = <<>>
    /\ numText = ""
    /\ numRead = NoParse

SpecAny == InitAny /\ [][Answer]_vars

(***************************************************************************)
(* Properties                                                              *)
(***************************************************************************)
ChartsDone == pc \in {"charts", "insights"}
KpisDone == pc \in {"kpis", "charts", "insights"}

\* C1: generateCharts returns at most 8 chart specs, and at least 4 whenever
\* the candidate pool built from the rows and the profile holds at least 4
\* candidates.
C1_ChartCount ==
    ChartsDone => /\ Len(charts) <= 8
                  /\ (Len(pool) >= 4 => Len(charts) >= 4)

\* a pool of at least four candidates of which the diversity rule alone takes
\* fewer than four: the fourth chart is a third chart of one purpose
C1_Backfilled ==
    /\ pc = "charts"
    /\ Len(pool) >= 4
    /\ Len(charts) = 4
    /\ \E p \in {"distribution", "composition", "trend", "relationship"} :
          Cardinality({i \in 1..Len(charts) : charts[i].purpose = p}) > 2

\* C2: for every row set, with or without a profile, generateKPIs returns at
\* most 6 KPIs and the first of them is the row count, labelled "Rows".
C2_RowsFirst ==
    KpisDone => /\ Len(kpis) <= 6
                /\ Len(kpis) >= 1
                /\ kpis[1].label = "Rows"
                /\ kpis[1].type = "count"

\* the place of a severity in the order of the rail
SeverityPlace(severity) ==
    IF severity = "warning" THEN 1 ELSE IF severity = "positive" THEN 2 ELSE 3

\* C3: generateInsights returns at most 6 insights, no two of them with the
\* same id, every warning before every positive insight and every positive
\* insight before every info insight.
C3_InsightsRanked ==
    pc = "insights" =>
       /\ Len(insights) <= 6
       /\ \A i, j \in 1..Len(insights) :
             i < j => /\ insights[i].id /= insights[j].id
                      /\ SeverityPlace(insights[i].severity)
                           <= SeverityPlace(insights[j].severity)

\* six insights of the three severities, from a profile in which two columns
\* would give insights of one id
C3_FullRail ==
    /\ pc = "insights"
    /\ Len(insights) = 6
    /\ {insights[i].severity : i \in 1..Len(insights)} = {"warning", "positive", "info"}
    /\ \E c1, c2 \in Range(eda.v.order) : c1 /= c2 /\ insightKey(c1) = insightKey(c2)

\* C4: for every histogram chart generateCharts emits, the bin counts sum to
\* its total and the total is the nonMissingCount of the column in the
\* profile, the columns admitted by the numeric fallback detector included.
C4_HistogramTotals ==
    ChartsDone =>
       \A i \in 1..Len(charts) :
          charts[i].type = "histogram" =>
             /\ SumSeq(charts[i].counts) = charts[i].total
             /\ charts[i].total = eda.v.columns[charts[i].column].nonMissingCount

\* C5: for every box plot computed from at least 12 values,
\* min <= q1 <= median <= q3 <= max, min and max being the whisker ends.
\* (The quartiles are in quarters.)
C5_BoxOrdered ==
    (pc = "box" /\ boxOut.ok) =>
       /\ 4 * boxOut.min <= boxOut.q1
       /\ boxOut.q1 <= boxOut.median
       /\ boxOut.median <= boxOut.q3
       /\ boxOut.q3 <= 4 * boxOut.max

\* the distinct values of a column of the rows
DistinctValues(col) == {Cell(data.rows[i], col) : i \in 1..Len(data.rows)} \ {Null}

\* C6: every correlation chart generateCharts emits has a square matrix over
\* its columns, at most 10 of them, that is symmetric and has 1 at every
\* diagonal position, when each of its columns has at least 2 distinct values.
C6_CorrelationMatrix ==
    ChartsDone =>
       \A k \in 1..Len(charts) :
          (/\ charts[k].type = "corr"
           /\ \A c \in Range(charts[k].columns) : Cardinality(DistinctValues(c)) >= 2)
          => /\ Len(charts[k].columns) <= 10
             /\ Len(charts[k].matrix) = Len(charts[k].columns)
             /\ \A i, j \in 1..Len(charts[k].columns) :
                   /\ Len(charts[k].matrix[i]) = Len(charts[k].columns)
                   /\ charts[k].matrix[i][j] = charts[k].matrix[j][i]
                   /\ (i = j => charts[k].matrix[i][j] = One)

\* C7: Scenario A (100 rows, amount holding 1..99 and one 10000): the
\* pipeline yields an outlier insight for amount of severity warning and a
\* box plot for amount whose outliers hold 10000.
C7_ScenarioA ==
    (pc = "insights" /\ data.name = "scenario-a") =>
       /\ \E i \in 1..Len(insights) :
             /\ insights[i].id = "outlier-amount"
             /\ insights[i].column = "amount"
             /\ insights[i].severity = "warning"
       /\ \E k \in 1..Len(charts) :
             /\ charts[k].type = "box"
             /\ charts[k].column = "amount"
             /\ 10000 \in Range(charts[k].outliers)

\* the columns a chart refers to
ChartRefers(chart, col) ==
    \/ chart.column = col
    \/ (chart.type \in {"time", "scatter"} /\ (chart.xColumn = col \/ chart.yColumn = col))
    \/ (chart.type = "corr" /\ col \in Range(chart.columns))

\* C8: Scenario B (order_id holding the integers 1..N): runEDA classifies
\* order_id as an identifier, and whatever the other columns, no KPI has it
\* as its column, no chart refers to it and no outlier, negatives or skew
\* insight is about it.
C8_ScenarioB ==
    (pc = "insights" /\ data.name = "scenario-b") =>
       /\ eda.v.columns["order_id"].inferredAs = "id"
       /\ \A i \in 1..Len(kpis) : kpis[i].column /= "order_id"
       /\ \A k \in 1..Len(charts) : ~ChartRefers(charts[k], "order_id")
       /\ \A i \in 1..Len(insights) : insights[i].column /= "order_id"

\* the trailing phrase of the question asked, when it is a trigger and a phrase
IsColumnQuestion == \E t \in ColumnTriggers, ph \in Phrases : question = t \o ph
AskedPhrase == CHOOSE ph \in Phrases : \E t \in ColumnTriggers : question = t \o ph

\* the columns of the profile whose stripped key is the key of the phrase, and
\* those whose key holds it or is held by it
ExactMatches(ph) == {c \in Range(eda.v.order) : normalizeKey(c) = normalizeKey(ph)}
ContainmentMatches(ph) ==
    {c \in Range(eda.v.order) : \/ includes(normalizeKey(c), normalizeKey(ph))
                                \/ includes(normalizeKey(ph), normalizeKey(c))}

\* the first column of the profile in a set of its columns
FirstOf(S) == eda.v.order[SetMin({i \in 1..Len(eda.v.order) : eda.v.order[i] \in S})]

AnswerUnresolved ==
    answer.kind \in {"explain-unresolved", "distribution-unresolved", "top-unresolved"}

\* the answer is about the column of the profile the phrase resolves to
ResolvedBy(ph) ==
    IF ExactMatches(ph) /= {}
      THEN ~AnswerUnresolved /\ answer.column = FirstOf(ExactMatches(ph))
    ELSE IF ContainmentMatches(ph) /= {}
      THEN ~AnswerUnresolved /\ answer.column = FirstOf(ContainmentMatches(ph))
    ELSE AnswerUnresolved

\* the numbers of a column of the rows
AskedNumbers(col) == {Cell(data.rows[i], col).n : i \in 1..Len(data.rows)}

ClassifiedAsTime(lower) ==
    /\ isTime(lower)
    /\ ~isSummary(lower) /\ ~isWhatStandsOut(lower) /\ ~isMainMetric(lower)
    /\ ~isOutliers(lower) /\ ~isSkew(lower) /\ ~isExplain(lower)
    /\ ~isDistribution(lower) /\ ~isTop(lower)

HasDateColumn == \E c \in Range(eda.v.order) : eda.v.columns[c].type = "date"

\* C10: for every question classified as a time intent, when no column of the
\* profile is a date, answerQuestion returns the fixed sentence that the
\* dataset does not contain a date column suitable for time analysis,
\* whatever the KPIs, charts and insights.
C10_NoDateColumn ==
    (pc = "answered" /\ ClassifiedAsTime(toLowerCase(trim(question))) /\ ~HasDateColumn) =>
       answer = [kind |-> "no-date-column",
                 text |-> "This dataset does not contain a date column suitable for time analysis."]

\* "time trend" asked of a profile without a date, with KPIs, charts and
\* insights on the dashboard
C10_TimeTrendAsked ==
    /\ pc = "answered"
    /\ question = "time trend"
    /\ ~HasDateColumn
    /\ kpis /= <<>> /\ charts /= <<>> /\ insights /= <<>>
    /\ answer.kind = "no-date-column"

\* the lowercased question answerQuestion tests
AskedLower == toLowerCase(trim(question))

\* the profile answerQuestion reads: the one passed, or none
ProfileRead == IF "eda" \in passed THEN eda.v ELSE EmptyEDA

\* C11: answerQuestion never raises: for every question and every combination
\* of profile, KPI list, chart list and insight list, the empty and the missing
\* ones included, it returns a sentence; when the question refers to a column
\* and its phrase is not resolved the sentence is the "couldn't find a matching
\* column" message naming the phrase, and when the column has no top values it
\* is the "could not be determined" sentence.
C11_NeverRaises ==
    pc = "answered" =>
       /\ answer.kind /= "raised"
       /\ answer.kind \in {"explain-unresolved", "top-unresolved"}
             => endsWith(AskedLower, answer.raw)
       /\ (/\ isExplain(AskedLower) \/ isTop(AskedLower)
           /\ ~isSummary(AskedLower) /\ ~isWhatStandsOut(AskedLower) /\ ~isMainMetric(AskedLower)
           /\ ~isOutliers(AskedLower) /\ ~isSkew(AskedLower)
           /\ ProfileRead.order = <<>>)
          => AnswerUnresolved
       /\ (/\ answer.kind \in {"top", "top-undetermined"}
           /\ ProfileRead.columns[answer.column].topValues = <<>>)
          => answer.kind = "top-undetermined"

\* C12: after any sequence of setDataset and clearDataset calls, whenever a
\* row set is stored the stored profile, KPIs and charts are the values
\* derived from it: runEDA(rows), generateKPIs(rows, profile) and
\* generateCharts(rows, profile); after clearDataset rows, meta and profile are
\* null and KPIs and charts are empty.
C12_StoredIsDerived ==
    /\ context.data.some =>
          LET rows == context.data.v
              profile == runEDA(rows, engine)
          IN /\ context.eda = SomeEDA(profile)
             /\ context.kpis = generateKPIs(rows, SomeEDA(profile))
             /\ context.charts = generateCharts(rows, profile, engine)
    /\ (Len(calls) > 0 /\ calls[Len(calls)] = "clearDataset") =>
          /\ ~context.data.some /\ ~context.meta.some /\ ~context.eda.some
          /\ context.kpis = <<>> /\ context.charts = <<>>

\* C13: in every column profile runEDA produces, uniqueCount and the top-value
\* counts are taken over the population nonMissingCount counts: uniqueCount is
\* at most nonMissingCount, the top-value counts sum to at most
\* nonMissingCount, and each top-value percentage is 100 * count /
\* nonMissingCount.
C13_SamePopulation ==
    pc /= "loaded" =>
       \A c \in Range(eda.v.order) :
          LET info == eda.v.columns[c]
          IN /\ info.uniqueCount <= info.nonMissingCount
             /\ SumSeq([i \in 1..Len(info.topValues) |-> info.topValues[i].count])
                   <= info.nonMissingCount
             /\ \A i \in 1..Len(info.topValues) :
                   info.topValues[i].pctNum * info.nonMissingCount
                     = 100 * info.topValues[i].count * info.topValues[i].pctDen

\* a stage has been called on the profile by the end of the step
CalledBy(stage) == stage \in Range(calls')

ScorePlace(i) ==
    1 + Cardinality({j \in 1..Len(pool) :
                       \/ pool[j].score > pool[i].score
                       \/ pool[j].score = pool[i].score /\ j < i})

\* the places of the candidates the charts were made from, in chart order
ChartPlaces ==
    [k \in 1..Len(charts) |-> ScorePlace(CHOOSE i \in 1..Len(pool) : pool[i].spec = charts[k])]

\* the cap on a purpose and on a type
PurposeCap(p) == 2
TypeCap(t) == IF t \in {"histogram", "bar", "time"} THEN 2 ELSE 1

\* the candidate at place at is open to a capped pass that accepted the places
\* accepted: below the cap of its purpose and of its type among those before it
OpenAt(at, accepted) ==
    LET Before(same(_)) ==
            Cardinality({i \in 1..Len(pool) :
                           ScorePlace(i) \in accepted /\ ScorePlace(i) < at /\ same(pool[i])})
        c == pool[CHOOSE i \in 1..Len(pool) : ScorePlace(i) = at]
    IN  /\ Before(LAMBDA o : o.purpose = c.purpose) < PurposeCap(c.purpose)
        /\ Before(LAMBDA o : o.spec.type = c.spec.type) < TypeCap(c.spec.type)

\* the first n charts are what a capped pass in descending score order accepts
CappedPass(n) ==
    LET accepted == {ChartPlaces[k] : k \in 1..n} IN
    /\ \A k \in 1..(n - 1) : ChartPlaces[k] < ChartPlaces[k + 1]
    /\ \A at \in 1..Len(pool) : at \in accepted <=> OpenAt(at, accepted)

\* the charts satisfy every cap
WithinCaps ==
    /\ \A p \in {charts[k].purpose : k \in 1..Len(charts)} :
          Cardinality({k \in 1..Len(charts) : charts[k].purpose = p}) <= PurposeCap(p)
    /\ \A t \in {charts[k].type : k \in 1..Len(charts)} :
          Cardinality({k \in 1..Len(charts) : charts[k].type = t}) <= TypeCap(t)

\* C15: the charts are, first, what a pass over the candidates in descending
\* score order accepts while the purpose count is below 2 and the type count
\* below its cap (histogram, bar, time 2; scatter, box, correlation 1); if that
\* pass accepts at least 4 nothing is added and every cap holds, and if it
\* accepts fewer than 4 the best candidates not accepted follow, in score
\* order and whatever the caps, until there are 4 charts or no candidate is left.
C15_CappedThenFilled ==
    ChartsDone =>
      \E n \in 0..Len(charts) :
        /\ CappedPass(n)
        /\ n >= 4 => Len(charts) = n /\ WithinCaps
        /\ n < 4 =>
              /\ Len(charts) = MinOf(4, Len(pool))
              /\ \A k \in (n + 1)..Len(charts) :
                    ChartPlaces[k] =
                      SetMin((1..Len(pool)) \ {ChartPlaces[j] : j \in 1..(k - 1)})

\* a capped pass that accepted at least four and turned a candidate down for
\* the cap of its type alone: a scatter plot, when a scatter plot and no other
\* relationship chart had been accepted
C15_TurnedDown ==
    /\ pc = "charts"
    /\ Len(charts) >= 4
    /\ WithinCaps
    /\ \E i \in 1..Len(pool) :
          /\ pool[i].spec.type = "scatter"
          /\ ScorePlace(i) \notin Range(ChartPlaces)
          /\ {charts[k].type : k \in {j \in 1..Len(charts) :
                                       /\ ChartPlaces[j] < ScorePlace(i)
                                       /\ charts[j].purpose = "relationship"}} = {"scatter"}

\* the intents in the order summary, what-stands-out, main-metric, outliers,
\* skew, explain-column, distribution-of-column, top-values, time/trend,
\* kpi-gaps, next-steps, not-answerable, data-to-add, executive-framing: whether
\* the pattern of each matches the question
IntentMatches ==
    << isSummary(AskedLower), isWhatStandsOut(AskedLower), isMainMetric(AskedLower),
       isOutliers(AskedLower), isSkew(AskedLower), isExplain(AskedLower),
       isDistribution(AskedLower), isTop(AskedLower), isTime(AskedLower),
       isKpiGap(AskedLower), isNextSteps(AskedLower), isNotAnswerable(AskedLower),
       isDataImprove(AskedLower), isExec(AskedLower) >>

\* the texts of the insights passed, and of the warnings among them
InsightTexts(severities) ==
    LET ins == IF "insights" \in passed
                 THEN SelectSeq(insights, LAMBDA i : i.severity \in severities) ELSE <<>>
    IN  [i \in 1..Len(ins) |-> ins[i].text]

\* the answer is one the intent at place i of the order gives (0: the generic
\* fallback)
AnswerOfIntent(i) ==
    CASE i = 0 -> answer.kind = "fallback"
      [] i = 1 -> answer.kind = "summary"
      [] i = 2 -> \/ answer.kind = "nothing-stands-out"
                  \/ answer.kind = "bullets" /\ answer.texts = InsightTexts({"warning", "info"})
      [] i = 3 -> answer.kind \in {"main-metric", "no-main-metric"}
      [] i = 4 -> \/ answer.kind = "no-outliers"
                  \/ answer.kind = "bullets" /\ answer.texts = InsightTexts({"warning"})
      [] i = 5 -> answer.kind \in {"skewed", "not-skewed"}
      [] i = 6 -> answer.kind \in {"explain-numeric", "explain-categorical", "explain-date",
                                   "explain-unsupported", "explain-unresolved"}
      [] i = 7 -> answer.kind \in {"distribution-numeric", "distribution-categorical",
                                   "distribution-unsuitable", "distribution-unresolved"}
      [] i = 8 -> answer.kind \in {"top", "top-undetermined", "top-unresolved"}
      [] i = 9 -> answer.kind \in {"time", "no-date-column"}
      [] i = 10 -> answer.kind = "kpi-gaps"
      [] i = 11 -> answer.kind = "next-steps"
      [] i = 12 -> answer.kind = "limitations"
      [] i = 13 -> answer.kind = "data-to-add"
      [] i = 14 -> answer.kind = "executive"

\* C16: whenever answerQuestion returns, its answer is that of the first intent,
\* in the order summary, what-stands-out, main-metric, outliers, skew,
\* explain-column, distribution-of-column, top-values, time/trend, kpi-gaps,
\* next-steps, not-answerable, data-to-add, executive-framing, whose pattern
\* matches the trimmed, lowercased question, and it is the generic fallback
\* exactly when no pattern matches.
C16_FirstIntentWins ==
    (pc = "answered" /\ answer.kind /= "raised") =>
       LET matches == IntentMatches IN
       /\ \A i \in 1..Len(matches) :
             (matches[i] /\ \A j \in 1..(i - 1) : ~matches[j]) => AnswerOfIntent(i)
       /\ answer.kind = "fallback" <=> \A i \in 1..Len(matches) : ~matches[i]

\* a question that matches two intents, the later of them earlier in the
\* question, got the answer of the one earlier in the order
C16_LaterWordFirst ==
    /\ pc = "answered"
    /\ question = "outliers summary"
    /\ answer.kind = "summary"

\* the place of a KPI in the order rows, duplicates, missing rate, total,
\* average, range, top category, date span (0: none of them)
KpiPlace(k) ==
    CASE k.type = "count" /\ k.label = "Rows" -> 1
      [] k.type = "count" /\ k.label = "Duplicates" -> 2
      [] k.type = "rate" -> 3
      [] k.type = "sum" -> 4
      [] k.type = "mean" -> 5
      [] k.type = "range" -> 6
      [] k.type = "top" -> 7
      [] k.type = "span" -> 8
      [] OTHER -> 0

KpiPlaces == {KpiPlace(kpis[i]) : i \in 1..Len(kpis)}

\* C17: the KPI list holds at most 6 entries, in the order rows, duplicates
\* (only if the profile counts duplicates), missing rate, total, average and
\* range of one column, top category, date span, each at most once and the
\* three of the numeric column together; when duplicates, missing rate and
\* the three numeric KPIs are there, no top-category and no date-span KPI is.
C17_KpiOrder ==
    KpisDone =>
       /\ Len(kpis) <= 6
       /\ \A i \in 1..Len(kpis) : KpiPlace(kpis[i]) /= 0
       /\ \A i \in 1..(Len(kpis) - 1) : KpiPlace(kpis[i]) < KpiPlace(kpis[i + 1])
       /\ 2 \in KpiPlaces => eda.v.duplicates > 0
       /\ KpiPlaces \cap {4, 5, 6} /= {} =>
             /\ {4, 5, 6} \subseteq KpiPlaces
             /\ Cardinality({kpis[i].column : i \in {j \in 1..Len(kpis) :
                                                       KpiPlace(kpis[j]) \in {4, 5, 6}}}) = 1
       /\ {2, 3, 4, 5, 6} \subseteq KpiPlaces => KpiPlaces \cap {7, 8} = {}

\* a profile with duplicates, a categorical column with top values and a date
\* column with both ends: the list stops at the range of the numeric column
C17_StripFull ==
    /\ pc = "kpis"
    /\ KpiPlaces = {1, 2, 3, 4, 5, 6}
    /\ pickBestCategorical(eda.v, Len(data.rows)) /= ""
    /\ pickBestDate(eda.v) /= ""

\* the columns of the numeric KPIs (total, average, range)
TriadColumns ==
    {kpis[i].column : i \in {j \in 1..Len(kpis) : kpis[j].type \in {"sum", "mean", "range"}}}

\* a numeric column of the profile that is excluded: too few samples, a
\* degenerate range, or identifier-like
ExcludedNumeric(c) ==
    \/ eda.v.columns[c].nonMissingCount < 25
    \/ ~eda.v.columns[c].min.ok
    \/ eda.v.columns[c].min = eda.v.columns[c].max
    \/ isIdLikeColumn(c, eda.v.columns[c], Len(data.rows))

\* C18: the total, average and range KPIs are those of one column, a numeric
\* column of the profile that is not excluded (25 samples or more, min below
\* max, not identifier-like) and that no other such column outscores; when
\* every numeric column is excluded there is none of them.
C18_BestNumeric ==
    KpisDone =>
       LET numeric == {c \in Range(eda.v.order) : eda.v.columns[c].type = "numeric"}
           kept == {c \in numeric : ~ExcludedNumeric(c)}
       IN  /\ Cardinality(TriadColumns) <= 1
           /\ TriadColumns \subseteq kept
           /\ \A c \in TriadColumns : \A o \in kept :
                 scoreNumericCol(o, eda.v.columns[o], Len(data.rows))
                   <= scoreNumericCol(c, eda.v.columns[c], Len(data.rows))

\* the insights of the outlier rule among those returned: the outlier
\* warning and the negatives and right-skew notes that go with it
OutlierRuleInsights ==
    {i \in 1..Len(insights) : insights[i].text[1] \in {"outlier", "negatives", "skew"}}

\* the main metric of the KPI list: the column of its first total, or else of
\* its first average
MainMetricColumn ==
    LET named == SelectSeq(kpis, LAMBDA k : k.type = "sum" /\ k.column /= "")
                 \o SelectSeq(kpis, LAMBDA k : k.type = "mean" /\ k.column /= "")
    IN  IF Len(named) > 0 THEN insightColumn(named[1].column, eda.v.order) ELSE NoColumn

\* a numeric column whose mean is above 0 and whose max is at least 3 times it
StrongOutlierColumn(c) ==
    /\ eda.v.columns[c].type = "numeric"
    /\ eda.v.columns[c].max.ok /\ eda.v.columns[c].mean.ok
    /\ eda.v.columns[c].mean.num > 0
    /\ eda.v.columns[c].max.n * eda.v.columns[c].mean.den >= 3 * eda.v.columns[c].mean.num

\* (100 if the column is the main metric, else 0) + 10 * max / mean, in
\* thousandths
OutlierRank(c) ==
    (IF MainMetricColumn = SomeColumn(c) THEN 100000 ELSE 0)
      + 10 * ((1000 * eda.v.columns[c].max.n * eda.v.columns[c].mean.den)
                \div eda.v.columns[c].mean.num)

\* C19: the insights of the outlier rule that generateInsights returns are on
\* numeric columns whose mean is above 0 and whose max / mean is at least 3;
\* there are at most 2 of them; and a column of the rule whose warning is not
\* returned does not outrank, by (100 if main metric, else 0) + 10 * ratio, a
\* column whose warning is.
C19_OutlierRule ==
    pc = "insights" =>
       /\ \A i \in OutlierRuleInsights : StrongOutlierColumn(insights[i].column)
       /\ Cardinality(OutlierRuleInsights) <= 2
       /\ \A i \in OutlierRuleInsights : \A c \in Range(eda.v.order) :
             (/\ insights[i].text[1] = "outlier"
              /\ StrongOutlierColumn(c)
              /\ \A j \in 1..Len(insights) : insights[j].id /= "outlier-" \o insightKey(c))
             => OutlierRank(c) <= OutlierRank(insights[i].column)

\* the dominance insights among those returned
DominanceInsights == {i \in 1..Len(insights) : insights[i].text[1] = "dominance"}

\* a categorical column whose most common value has at least 70% of the
\* non-missing values, and that has at least 2 distinct values
Concentrated(c) ==
    /\ eda.v.columns[c].type = "categorical"
    /\ Len(eda.v.columns[c].topValues) > 0
    /\ 100 * eda.v.columns[c].topValues[1].count >= 70 * eda.v.columns[c].nonMissingCount
    /\ eda.v.columns[c].uniqueCount >= 2

\* share * 2 - uniqueCount of column c is at most that of column o (the shares
\* as count / nonMissingCount, cross-multiplied)
NotAbove(c, o) ==
    LET TwiceShareLessUnique(info) ==
            200 * info.topValues[1].count - info.uniqueCount * info.nonMissingCount
    IN  TwiceShareLessUnique(eda.v.columns[c]) * eda.v.columns[o].nonMissingCount
          <= TwiceShareLessUnique(eda.v.columns[o]) * eda.v.columns[c].nonMissingCount

\* C20: generateInsights returns at most one dominance insight; its column is
\* categorical with a top-value share of at least 70% and at least 2 distinct
\* values, and no other such column has a greater share * 2 - uniqueCount; its
\* text names the top value and the rounded share.  For the column country
\* with "US" in 80% of 500 rows it names "US" and 80%.
C20_Dominance ==
    pc = "insights" =>
       /\ Cardinality(DominanceInsights) <= 1
       /\ \A i \in DominanceInsights :
             LET chosen == insights[i].column
                 top == eda.v.columns[chosen].topValues[1]
             IN  /\ Concentrated(chosen)
                 /\ \A c \in Range(eda.v.order) : Concentrated(c) => NotAbove(c, chosen)
                 /\ insights[i].text[3] = top.value
                 /\ insights[i].text[4]
                      = (200 * top.count + eda.v.columns[chosen].nonMissingCount)
                          \div (2 * eda.v.columns[chosen].nonMissingCount)
       /\ data.name = "scenario-c" =>
             \E i \in DominanceInsights :
                insights[i].text = <<"dominance", "country", "US", 80>>

\* two concentrated columns, and the dominance insight is on the later one
C20_LaterColumnChosen ==
    /\ pc = "insights"
    /\ \E i \in DominanceInsights : \E c \in Range(eda.v.order) :
          /\ Concentrated(c)
          /\ c /= insights[i].column
          /\ \E m, n \in 1..Len(eda.v.order) :
                m < n /\ eda.v.order[m] = c /\ eda.v.order[n] = insights[i].column

\* C21: in a profile, a column the identifier checks have declined is numeric
\* when at least 80% of its non-missing values parse as numbers, otherwise a
\* date when at least 80% parse as dates, otherwise categorical; a column whose
\* values all parse as numbers and as dates is numeric
ParsedCounts(c) ==
    [N |-> Len(NonMissing(ColumnValues(data, c))),
     numericOk |-> Len(NumbersIn(NonMissing(ColumnValues(data, c)))),
     dateOk |-> Len(DatesIn(NonMissing(ColumnValues(data, c)), engine))]

TypeByRatios(n) ==
    IF n.numericOk * 100 >= 80 * n.N THEN "numeric"
    ELSE IF n.dateOk * 100 >= 80 * n.N THEN "date"
    ELSE "categorical"

C21_NumericFirst ==
    pc = "profiled" =>
        \A c \in Range(eda.v.order) :
            (eda.v.columns[c].inferredAs /= "id" /\ ParsedCounts(c).N > 0)
                => eda.v.columns[c].type = TypeByRatios(ParsedCounts(c))

\* C22: isLikelyID holds of a value list exactly when it has at least 20
\* non-missing values, fewer than 85% of them look numeric, fewer than 85% look
\* like dates, more than 90% are distinct, more than 60% are tokens
\* ([A-Za-z0-9_-]+), and the average length is at most 24 or at least 60% are
\* tokens of 6 characters or more.  In a profile, a column whose name gives no
\* hint and which holds fewer than 30 numbers is tagged "id" by isLikelyID alone.
TokenShaped(x) ==
    /\ Len(x) > 0
    /\ \A i \in 1..Len(x) :
          \/ IsDigit(Char(x, i)) \/ IsUpper(Char(x, i)) \/ Char(x, i) \in Range(LowerLetters)
          \/ Char(x, i) \in {"-", "_"}

Share(strs, P(_)) == Cardinality({i \in 1..Len(strs) : P(strs[i])})

IdByTheRule(strs, eng) ==
    LET n == Len(strs)
        IsLongToken(x) == TokenShaped(x) /\ Len(x) >= 6
        LooksDate(x) == looksDate(x, eng)
    IN
    /\ n >= 20
    /\ Share(strs, looksNumeric) * 100 < 85 * n
    /\ Share(strs, LooksDate) * 100 < 85 * n
    /\ Cardinality(Range(strs)) * 10 > 9 * n
    /\ Share(strs, TokenShaped) * 10 > 6 * n
    /\ \/ SumSeq([i \in 1..n |-> Len(strs[i])]) <= 24 * n
       \/ Share(strs, IsLongToken) * 10 >= 6 * n

C22_IdExactly ==
    pc = "profiled" =>
        \A c \in Range(eda.v.order) :
            (~nameHintsId(c) /\ Len(data.rows) < 30)
                => (eda.v.columns[c].inferredAs = "id"
                      <=> IdByTheRule(AsStrings(ColumnValues(data, c)), engine))

\* C23: with no point in the string, commas that separate thousands ("1,234",
\* "1,234,567") are removed and the number is read (1234, 1234567), while a
\* comma before the decimals ("1234,56") is read as the point (1234.56); with a
\* currency sign, spaces, a percent sign or parentheses around it, no number
\* written in groups of three is turned down
CommaFields(n) == SplitAt(n, {","})

\* /^\d{1,3}(,\d{3})+$/
GroupedNumeral(n) ==
    LET f == CommaFields(n) IN
    /\ Len(f) >= 2
    /\ \A i \in 1..Len(f) : Len(f[i]) > 0 /\ AllDigits(f[i])
    /\ Len(f[1]) <= 3
    /\ \A i \in 2..Len(f) : Len(f[i]) = 3

\* digits, one comma and one to three digits, not in groups of three
CommaDecimal(n) ==
    LET f == CommaFields(n) IN
    /\ Len(f) = 2
    /\ \A i \in 1..2 : Len(f[i]) > 0 /\ AllDigits(f[i])
    /\ Len(f[2]) <= 3
    /\ ~GroupedNumeral(n)

\* the thousandths of the digits ip.fp (fp of three digits at most)
Thousandths(ip, fp) ==
    DigitsToInt(ip) * 1000
        + DigitsToInt(fp \o (IF Len(fp) = 0 THEN "000" ELSE IF Len(fp) = 1 THEN "00"
                              ELSE IF Len(fp) = 2 THEN "0" ELSE ""))

ReadAs(thousandths) ==
    /\ numRead.literal.ok
    /\ numRead.looks
    /\ Len(numRead.literal.fp) <= 3
    /\ Thousandths(numRead.literal.ip, numRead.literal.fp) = thousandths

C23_CommasDisambiguated ==
    pc = "parsed" =>
        \A p \in TextParts :
            (numText = TextOf(p) /\ ~(p.paren /\ p.sign = "-")) =>
                /\ GroupedNumeral(p.numeral)
                     => ReadAs(Thousandths(RemoveChars(p.numeral, {","}), ""))
                /\ CommaDecimal(p.numeral)
                     => ReadAs(Thousandths(CommaFields(p.numeral)[1], CommaFields(p.numeral)[2]))

\* C24: generateCharts scans for dates only the columns that are neither
\* numeric nor dates, so no column is both a date column and a numeric column:
\* the xColumn of every time chart returned is a date in the profile, or is not
\* numeric and has dates in at least 70% of its sampled non-missing cells, and
\* it is never the yColumn of the chart
SampledCells(c) ==
    LET idx == sampleRows(Len(data.rows), FallbackSample) IN
    NonMissing([k \in 1..Len(idx) |-> Cell(data.rows[idx[k]], c)])

DatesInSample(c) ==
    LET cells == SampledCells(c) IN
    10 * Len(DatesIn(cells, engine)) >= 7 * Len(cells)

C24_DateColumns ==
    ChartsDone =>
        \A k \in 1..Len(charts) :
            charts[k].type = "time" =>
                /\ \/ eda.v.columns[charts[k].xColumn].type = "date"
                   \/ /\ eda.v.columns[charts[k].xColumn].type /= "numeric"
                      /\ DatesInSample(charts[k].xColumn)
                /\ charts[k].xColumn /= charts[k].yColumn

\* C25: every chart returned by generateCharts is at or above its minimum
\* sample, a chart below it being left out: a histogram and a box count all the
\* numbers of their column and at least 12 of them; a time chart has at least
\* 20 rows in which the date and the number are both read, and at least 8
\* points; a scatter chart has at least 30 rows in which both numbers are read
\* and lists between 30 and 1200 points; a correlation matrix has at least 4
\* columns and at least 40 rows in which every one of them is read
RowsRead(numberCols, dateCols) ==
    {i \in 1..Len(data.rows) :
        /\ \A c \in numberCols : safeToNumberLoose(Cell(data.rows[i], c)).ok
        /\ \A c \in dateCols : safeToDateLoose(Cell(data.rows[i], c), engine).ok}

GuardKept(chart) ==
    CASE chart.type \in {"histogram", "box"} ->
           /\ chart.total = Cardinality(RowsRead({chart.column}, {}))
           /\ chart.total >= 12
      [] chart.type = "time" ->
           /\ Cardinality(RowsRead({chart.yColumn}, {chart.xColumn})) >= 20
           /\ Len(chart.points) >= 8
      [] chart.type = "scatter" ->
           /\ Cardinality(RowsRead({chart.xColumn, chart.yColumn}, {})) >= 30
           /\ Len(chart.points) >= 30
           /\ Len(chart.points) <= 1200
      [] chart.type = "corr" ->
           /\ Len(chart.columns) >= 4
           /\ Len(chart.matrix) = Len(chart.columns)
           /\ Cardinality(RowsRead(Range(chart.columns), {})) >= 40
      [] OTHER -> TRUE

C25_BelowGuardOmitted ==
    /\ ChartsDone
    /\ \E c \in Range(eda.v.order) :
          /\ Cardinality(RowsRead({c}, {})) \in 1..11
          /\ eda.v.columns[c].type = "numeric"
          /\ \A k \in 1..Len(charts) : charts[k].type \in {"histogram", "box"} => charts[k].column /= c

\* C26: the duplicate count of the profile is the number of rows less the
\* number of distinct rows, two rows being the same when they hold the same
\* value in every column of the data set; rows that differ in the value of a
\* column are never counted as duplicates of each other
RowOver(row, cols) == [c \in cols |-> Cell(row, c)]

DistinctRows ==
    LET cols == Range(eda.v.order) IN
    {RowOver(data.rows[i], cols) : i \in 1..Len(data.rows)}

C26_DuplicateCount ==
    (pc = "profiled" /\ Len(data.rows) > 0) =>
        eda.v.duplicates = Len(data.rows) - Cardinality(DistinctRows)

\* C27: the charts the dashboard shows are never driven by an identifier
\* column: no chart of chosenCharts has a column, xColumn, yColumn or
\* correlation column that is an identifier by its name, by its inferredAs tag,
\* or by 20 or more unique values with a uniqueness above 0.98; no two of them
\* have the same type, column, x and y; and they are 8 at most
C27_NoIdCharts ==
    pc = "dashboard" =>
        /\ \A k \in 1..Len(chosenCharts) : ~chartUsesId(chosenCharts[k], eda.v)
        /\ \A j, k \in 1..Len(chosenCharts) :
              j /= k => keyOf(chosenCharts[j]) /= keyOf(chosenCharts[k])
        /\ Len(chosenCharts) <= 8

\* C28: in every column profile of runEDA, missing + nonMissingCount is the
\* number of rows, so that the missing percentage of a column and the overall
\* missing rate are shares of the true numbers of cells
C28_CellsAccounted ==
    (pc = "profiled" /\ Len(data.rows) > 0) =>
        \A c \in Range(eda.v.order) :
            eda.v.columns[c].missing + eda.v.columns[c].nonMissingCount = Len(data.rows)

\* C29: the answer to a question about outliers lists the texts of the
\* insights of the numeric outlier rule and of no other rule, and is the
\* sentence "No significant outliers ..." exactly when the insights hold no
\* outlier insight
OutlierTexts ==
    LET found == SelectSeq(insights, LAMBDA i : i.text[1] = "outlier") IN
    [k \in 1..Len(found) |-> found[k].text]

C29_OutliersOnly ==
    pc = "answered" =>
        IF OutlierTexts = <<>> THEN answer.kind = "no-outliers"
        ELSE answer.kind = "bullets" /\ answer.texts = OutlierTexts

\* C30: after any sequence of setDataset and clearDataset calls, the rows,
\* the meta and the profile of the context are all null or all non-null, so
\* that hasDataset is never true of a data set loaded in part, and the KPIs and
\* charts are empty lists whenever the rows are null
hasDataset == context.data.some /\ context.meta.some /\ context.eda.some

C30_AllOrNothing ==
    /\ context.data.some = context.meta.some
    /\ context.meta.some = context.eda.some
    /\ ~context.data.some => (context.kpis = <<>> /\ context.charts = <<>>)

\* a data set was stored with its KPIs and then cleared
C30_StoredThenCleared ==
    /\ Len(calls) = 2
    /\ calls[1] \in {"setDataset", "onFileChange"}
    /\ calls[2] = "clearDataset"
    /\ ~hasDataset
    /\ ~context.data.some
    /\ context.kpis = <<>>

====
